---- MODULE Spec2Model ----
(***************************************************************************)
(* Verification model of the Hedge-Trading-Platform backtesting core.      *)
(*                                                                         *)
(* Sections:                                                               *)
(*   1. core.Backtester            (trading_bot/core/backtester.py)        *)
(*   2. the optimizers             (core/backtester.py, web/app.py)        *)
(*   3. GridHedgeStrategy levels, GridBacktester and GridExecutor          *)
(*   4. the indicator preprocessor (analysis/indicators.py)                *)
(*   5. GridHedgeStrategy.generate_signals                                 *)
(*   6. backtesting.Backtester driving HedgingStrategy.analyze             *)
(*   7. StrategyRegistry                                                   *)
(*   8. BaseStrategy parameters    (core/strategy.py)                      *)
(*   9. optimize_strategy: the parameter combinations (core/backtester.py) *)
(*  10. the performance metrics    (analysis/, backtesting/)               *)
(*                                                                         *)
(* Every specification constrains all variables; the variables of the     *)
(* sections a specification does not exercise stay at their idle values.   *)
(***************************************************************************)
EXTENDS Integers, Sequences, FiniteSets, TLC

VARIABLES
    \* ---- core.Backtester ------------------------------------------------
    core_params,          \* Backtester.strategy_params (a dict)
    core_initial_capital, \* Backtester.initial_capital
    core_capital,         \* Backtester.capital
    core_position,        \* Backtester.position
    core_trades,          \* Backtester.trades
    core_equity_curve,    \* equity_curve local of run_backtest
    core_i,               \* number of rows of df already iterated
    core_rows,            \* the rows of df already iterated: close and signal
    \* ---- optimizers ------------------------------------------------------
    opt_kind,             \* which optimizer runs: "core" or "web"
    opt_trials,           \* per parameter combination: what its trial does
    opt_pc,               \* "submit", "collect", "done" or "failed"
    opt_submitted,        \* number of futures submitted so far
    opt_pending,          \* submitted futures not yet yielded by as_completed
    opt_results,          \* the results list
    opt_best,             \* the returned trial (a sequence, empty before the return)
    \* ---- GridBacktester / GridHedgeStrategy / GridExecutor ----------------
    driver,               \* who drives the levels: "backtest" or "live"
    symbol,               \* GridBacktester.symbol
    strategy_params,      \* GridHedgeStrategy._params
    gb_initial_capital,   \* GridBacktester.initial_capital
    commission_rate,      \* GridBacktester.commission_rate (per mille)
    current_capital,      \* GridBacktester.current_capital
    gb_equity_curve,      \* GridBacktester.equity_curve
    gb_trades,            \* GridBacktester.trades
    gb_i,                 \* number of bars of data already processed
    levels,               \* every GridLevel object created so far, by identity
    grid_levels,          \* GridHedgeStrategy.grid_levels (identities)
    total_profit,         \* GridHedgeStrategy.total_profit (the terms added)
    trades_history,       \* GridHedgeStrategy.trades_history
    live_grid,            \* the list run_live_trading hands to the executor
    active_orders,        \* GridExecutor.active_orders: <<order id, level>>
    orders,               \* the exchange's orders, by order id
    \* ---- calculate_grid_levels as a function of its inputs ---------------
    calc_params,          \* _params of the strategy
    calc_price,           \* the current_price argument
    calc_result,          \* the returned list (a sequence holding it)
    \* ---- parallel_process_indicators --------------------------------------
    ind_data,             \* historical_data: the close of each row
    ind_workers,          \* max_workers
    ind_pc,               \* "collect" or "done"
    ind_pending,          \* chunk numbers as_completed has not yielded yet
    ind_processed,        \* processed_chunks
    ind_out,              \* the returned frame (a sequence holding it)
    \* ---- GridHedgeStrategy.generate_signals -------------------------------
    sig_params,           \* _params of the strategy
    sig_a,                \* a bar sequence (closes)
    sig_b,                \* a bar sequence agreeing with sig_a on a prefix
    sig_out_a,            \* generate_signals(sig_a) (a sequence holding it)
    sig_out_b,            \* generate_signals(sig_b) (a sequence holding it)
    \* ---- backtesting.Backtester driving a HedgingStrategy -----------------
    bt_bars,              \* the rows get_historical_data returns
    bt_initial_capital,   \* Backtester.initial_capital
    bt_capital,           \* Backtester.current_capital
    bt_positions,         \* Backtester.positions, in insertion order
    bt_trades,            \* Backtester.trades
    bt_equity_curve,      \* Backtester.equity_curve
    bt_returns,           \* Backtester.returns
    bt_pc,                \* "idle" between runs, "loop" inside run,
                          \* "signals" when _execute_trades is called directly
    bt_i,                 \* rows of the data the loop of run has consumed
    bt_run,               \* calls of run started so far
    bt_signals,           \* per run, the list analyze returned on each row
    bt_results,           \* per run, what the run produced
    hs_position,          \* HedgingStrategy.position
    hs_hedge_position,    \* HedgingStrategy.hedge_position
    \* ---- StrategyRegistry -------------------------------------------------
    reg_strategies,       \* StrategyRegistry._strategies, in insertion order
    reg_result,           \* outcome of the last call on the registry
    \* ---- BaseStrategy parameters ------------------------------------------
    par_defaults,         \* default_parameters of the class
    par_required,         \* get_required_parameters() of the class
    par_state,            \* "class": no object yet; "object": constructed
    par_parameters,       \* self.parameters
    par_result,           \* outcome of the last call
    par_returned,         \* the dict get_parameters returned last
    par_same_object,      \* that dict is the object self.parameters
    \* ---- optimize_strategy: the parameter combinations -------------------
    enum_ranges,          \* param_ranges, in insertion order
    enum_pc,              \* "build": inside the comprehension; "trials" after
    enum_combinations,    \* param_combinations built so far
    \* ---- the performance metrics ------------------------------------------
    met_equity,           \* the equity curve
    met_bars_per_day,     \* bars of the curve per calendar day
    met_initial_capital,  \* initial_capital of the backtesting.Backtester
    met_impl,             \* the implementation that was called, or "none"
    met_out               \* the metrics it returned

coreVars == <<core_params, core_initial_capital, core_capital, core_position,
              core_trades, core_equity_curve, core_i, core_rows>>

optVars == <<opt_kind, opt_trials, opt_pc, opt_submitted, opt_pending,
             opt_results, opt_best>>

gridVars == <<driver, symbol, strategy_params, gb_initial_capital,
              commission_rate, current_capital, gb_equity_curve, gb_trades,
              gb_i, levels, grid_levels, total_profit, trades_history,
              live_grid, active_orders, orders>>

calcVars == <<calc_params, calc_price, calc_result>>

indVars == <<ind_data, ind_workers, ind_pc, ind_pending, ind_processed,
             ind_out>>

sigVars == <<sig_params, sig_a, sig_b, sig_out_a, sig_out_b>>

btVars == <<bt_bars, bt_initial_capital, bt_capital, bt_positions, bt_trades,
            bt_equity_curve, bt_returns, bt_pc, bt_i, bt_run, bt_signals,
            bt_results, hs_position, hs_hedge_position>>

regVars == <<reg_strategies, reg_result>>

parVars == <<par_defaults, par_required, par_state, par_parameters, par_result,
             par_returned, par_same_object>>

enumVars == <<enum_ranges, enum_pc, enum_combinations>>

metVars == <<met_equity, met_bars_per_day, met_initial_capital, met_impl,
             met_out>>

vars == <<coreVars, optVars, gridVars, calcVars, indVars, sigVars, btVars,
          regVars, parVars, enumVars, metVars>>

Null == "None"

Abs(x) == IF x < 0 THEN -x ELSE x

RECURSIVE Pow(_, _)
Pow(b, e) == IF e = 0 THEN 1 ELSE b * Pow(b, e - 1)

(***************************************************************************)
(* 1. core.Backtester                                                      *)
(*                                                                         *)
(* Money is held in integer units of 1/CapitalUnit so that the 2% position *)
(* sizing of execute_trade is exact on every bar of a run.  A size (an     *)
(* amount of the asset) is the quotient notional/price and is kept as that *)
(* pair; an equity value capital + position*close is kept as the fraction  *)
(* num/den.                                                                *)
(***************************************************************************)
MaxCoreBars == 3

\* resolution of the money unit: one factor 50 per executed trade
CapitalUnit == Pow(50, MaxCoreBars)

\* initial_capital values drawn for a run (in whole money units)
CoreCapitals == {1, 2}

\* close prices of the bars
CorePrices == {1, 2, 4}

\* values of the 'signal' column
Signals == {-1, 0, 1}

\* strategy_params['size_multiplier'] values
SizeMultipliers == {1, 50, 60}

\* A dict is the set of its <<key, value>> items.
HasKey(dict, key) == \E item \in dict : item[1] = key

Get(dict, key) == (CHOOSE item \in dict : item[1] = key)[2]

\* the dict strategy_params restricted to the key execute_trade reads:
\* empty, or holding a size_multiplier
CoreParamDicts ==
    {{}} \cup { {<<"size_multiplier", m>>} : m \in SizeMultipliers }

FlatPosition == [notional |-> 0, price |-> 1]

\* sign of Backtester.position (size, -size or 0)
PositionSign(pos) ==
    IF pos.notional > 0 THEN 1 ELSE IF pos.notional < 0 THEN -1 ELSE 0

\* size * price on line 61: |capital * 0.02 / price| * size_multiplier * price
TradeNotional(capital, params) ==
    LET base == (Abs(capital) * 2) \div 100
    IN  IF HasKey(params, "size_multiplier")
        THEN base * Get(params, "size_multiplier")
        ELSE base

\* a guard that lets a signal in the direction of the position through
ExecuteTradeSkips_ZeroOnly(signal, pos) == signal = 0

\* guard of execute_trade, line 50: the call returns None
ExecuteTradeSkips(signal, pos) ==
    \/ signal = 0
    \/ signal > 0 /\ PositionSign(pos) > 0
    \/ signal < 0 /\ PositionSign(pos) < 0

\* execute_trade: the state after the call and the trade it returns (the
\* empty sequence for None, else the one-element sequence of the trade dict)
ExecuteTrade(capital, pos, params, timestamp, price, signal) ==
    IF ExecuteTradeSkips(signal, pos)
    THEN [capital |-> capital, position |-> pos, trade |-> << >>]
    ELSE LET notional    == TradeNotional(capital, params)
             trade_value == IF signal > 0 THEN -notional ELSE notional
             newpos      == [notional |-> IF signal > 0 THEN notional ELSE -notional,
                             price    |-> price]
         IN  [capital  |-> capital + trade_value,
              position |-> newpos,
              trade    |-> <<[timestamp |-> timestamp,
                             type      |-> IF signal > 0 THEN "BUY" ELSE "SELL",
                             price     |-> price,
                             size      |-> [notional |-> notional, price |-> price],
                             value     |-> trade_value]>>]

\* current_equity = capital + position * close, as the fraction num/den
CoreEquity(capital, pos, close) ==
    [num |-> capital * pos.price + pos.notional * close, den |-> pos.price]

CoreInit ==
    /\ core_params \in CoreParamDicts
    /\ core_initial_capital \in { c * CapitalUnit : c \in CoreCapitals }
    /\ core_capital = core_initial_capital
    /\ core_position = FlatPosition
    /\ core_trades = << >>
    /\ core_equity_curve = << >>
    /\ core_i = 0
    /\ core_rows = << >>

CoreIdle ==
    /\ core_params = {}
    /\ core_initial_capital = 0
    /\ core_capital = 0
    /\ core_position = FlatPosition
    /\ core_trades = << >>
    /\ core_equity_curve = << >>
    /\ core_i = 0
    /\ core_rows = << >>

\* one iteration of the loop of run_backtest over a row (close, signal)
CoreBar(close, signal) ==
    /\ core_i < MaxCoreBars
    /\ LET r == IF signal # 0
                THEN ExecuteTrade(core_capital, core_position, core_params,
                                  core_i, close, signal)
                ELSE [capital |-> core_capital, position |-> core_position,
                      trade |-> << >>]
       IN  /\ core_capital' = r.capital
           /\ core_position' = r.position
           /\ core_trades' = core_trades \o r.trade
           /\ core_equity_curve' =
                  Append(core_equity_curve,
                         [timestamp |-> core_i,
                          equity    |-> CoreEquity(r.capital, r.position, close)])
    /\ core_i' = core_i + 1
    /\ core_rows' = Append(core_rows, [close |-> close, signal |-> signal])
    /\ UNCHANGED <<core_params, core_initial_capital>>
    /\ UNCHANGED <<optVars, gridVars, calcVars, indVars, sigVars, btVars,
                 regVars, parVars, enumVars, metVars>>

CoreNext == \E close \in CorePrices, signal \in Signals : CoreBar(close, signal)

(***************************************************************************)
(* 2. Optimizers: Backtester.optimize_strategy (core/backtester.py) and    *)
(*    parallel_optimize_strategy (web/app.py).                             *)
(*                                                                         *)
(* A trial is one parameter combination, numbered by its position in the   *)
(* Cartesian product.  What a trial does is an input: whether constructing *)
(* its Backtester raises, whether its run_backtest raises, and the Sharpe  *)
(* ratio its run reports.  The worker threads finish in any order, so      *)
(* as_completed may yield the submitted futures in any order.              *)
(***************************************************************************)
MaxTrials == 3

SharpeValues == {0, 1}

OptKinds == {"core", "web"}

TrialOutcomes == [ctor_ok : BOOLEAN, run_ok : BOOLEAN, sharpe : SharpeValues]

\* index of the first element of a non-empty list with the largest key
RECURSIVE FirstMaxIndex(_, _, _)
FirstMaxIndex(results, k, best) ==
    IF k > Len(results) THEN best
    ELSE FirstMaxIndex(results, k + 1,
                       IF results[k].sharpe_ratio > results[best].sharpe_ratio
                       THEN k ELSE best)

RemoveAt(s, k) == SubSeq(s, 1, k - 1) \o SubSeq(s, k + 1, Len(s))

\* list.sort(key = sharpe_ratio, reverse = True): a stable sort, elements
\* with equal keys keep their order in the list
RECURSIVE SortBySharpeDesc(_)
SortBySharpeDesc(results) ==
    IF results = << >> THEN << >>
    ELSE LET k == FirstMaxIndex(results, 1, 1)
         IN  <<results[k]>> \o SortBySharpeDesc(RemoveAt(results, k))

\* a trial's task raises when run in a worker thread
TaskRaises(kind, t) ==
    IF kind = "core"
    THEN ~t.run_ok                 \* the task is the bound run_backtest
    ELSE ~t.ctor_ok \/ ~t.run_ok   \* optimize_single constructs, then runs

OptInit ==
    /\ opt_kind \in OptKinds
    /\ \E n \in 1..MaxTrials : opt_trials \in [1..n -> TrialOutcomes]
    /\ opt_pc = "submit"
    /\ opt_submitted = 0
    /\ opt_pending = {}
    /\ opt_results = << >>
    /\ opt_best = << >>

OptIdle ==
    /\ opt_kind = Null
    /\ opt_trials = << >>
    /\ opt_pc = "idle"
    /\ opt_submitted = 0
    /\ opt_pending = {}
    /\ opt_results = << >>
    /\ opt_best = << >>

\* the dict comprehension that submits one future per combination; in the
\* core optimizer the Backtester is constructed here, in the calling thread,
\* outside the try of the collection loop
OptSubmit ==
    /\ opt_pc = "submit"
    /\ opt_submitted < Len(opt_trials)
    /\ LET i == opt_submitted + 1
       IN  IF opt_kind = "core" /\ ~opt_trials[i].ctor_ok
           THEN /\ opt_pc' = "failed"
                /\ UNCHANGED <<opt_submitted, opt_pending>>
           ELSE /\ opt_submitted' = i
                /\ opt_pending' = opt_pending \cup {i}
                /\ opt_pc' = IF i = Len(opt_trials) THEN "collect" ELSE "submit"
    /\ UNCHANGED <<opt_kind, opt_trials, opt_results, opt_best>>
    /\ UNCHANGED <<coreVars, gridVars, calcVars, indVars, sigVars, btVars,
                 regVars, parVars, enumVars, metVars>>

\* one iteration of the loop over as_completed(future_to_params)
OptCollect(i) ==
    /\ opt_pc = "collect"
    /\ i \in opt_pending
    /\ opt_pending' = opt_pending \ {i}
    /\ IF TaskRaises(opt_kind, opt_trials[i])
       THEN /\ opt_results' = opt_results
            /\ opt_pc' = IF opt_kind = "web" THEN "failed" ELSE "collect"
       ELSE /\ opt_results' = Append(opt_results,
                                     [params       |-> i,
                                      sharpe_ratio |-> opt_trials[i].sharpe])
            /\ opt_pc' = "collect"
    /\ UNCHANGED <<opt_kind, opt_trials, opt_submitted, opt_best>>
    /\ UNCHANGED <<coreVars, gridVars, calcVars, indVars, sigVars, btVars,
                 regVars, parVars, enumVars, metVars>>

\* results.sort(...); return results[0]
OptReturn ==
    /\ opt_pc = "collect"
    /\ opt_pending = {}
    /\ IF opt_results = << >>
       THEN /\ opt_pc' = "failed"          \* IndexError, re-raised
            /\ opt_best' = opt_best
       ELSE /\ opt_pc' = "done"
            /\ opt_best' = <<SortBySharpeDesc(opt_results)[1]>>
    /\ UNCHANGED <<opt_kind, opt_trials, opt_submitted, opt_pending, opt_results>>
    /\ UNCHANGED <<coreVars, gridVars, calcVars, indVars, sigVars, btVars,
                 regVars, parVars, enumVars, metVars>>

OptNext ==
    \/ OptSubmit
    \/ \E i \in 1..MaxTrials : OptCollect(i)
    \/ OptReturn


(***************************************************************************)
(* 3. GridHedgeStrategy (strategies/grid_hedge_strategy.py), GridBacktester*)
(*    (backtesting/grid_backtester.py), GridExecutor (execution/).         *)
(*                                                                         *)
(* Units.  A price is an integer number of 1/PriceScale; a fraction such   *)
(* as grid_spacing, min_profit or commission_rate is an integer per mille; *)
(* a size is an integer number of 1/1000.  Every bar close is a whole      *)
(* number, so the level prices and the commissions computed from them are  *)
(* exact.  Money is in the units of size * price.                          *)
(*                                                                         *)
(* GridLevel objects have identity: an object dropped from grid_levels is  *)
(* still reachable through the paired_level of its partner.  levels holds  *)
(* every object created, an identity is an index into it, and 0 is None.   *)
(*                                                                         *)
(* support_levels and resistance_levels, written by                        *)
(* update_support_resistance, and the result of analyze_market_condition   *)
(* are read by no operation and are left out.                              *)
(***************************************************************************)
PriceScale == 2000

PerMille == 1000

\* fill_price / fill_time of a level that was never filled (None)
NoValue == 0 - 1

\* closes of the bars, in whole price units
GridCloses == {98, 99, 100, 101, 102}

\* the close of the bars before the grid is first built
WarmupCloses == {100}

\* initial_capital values drawn for a run
GridCapitals == {3000000, 100000000}

\* commission_rate values drawn for a run, per mille
CommissionRates == {1}

\* bars with i < WarmupBars only record equity (grid_backtester.py:59)
WarmupBars == 20

\* bars processed after the warm-up
MaxGridBars == 3

\* keys of GRID_CONFIGS
Symbols == {"BTCUSDT", "XAUUSDT", "ETHUSDT"}

\* GRID_CONFIGS[symbol], the entries the strategy reads
GridConfig(sym) ==
    IF sym = "BTCUSDT"
    THEN [grid_spacing |-> 10, base_order_size |-> 10, size_multiplier |-> 11,
          max_loss_pct |-> 50]
    ELSE IF sym = "XAUUSDT"
    THEN [grid_spacing |-> 5, base_order_size |-> 100, size_multiplier |-> 11,
          max_loss_pct |-> 40]
    ELSE [grid_spacing |-> 12, base_order_size |-> 100, size_multiplier |-> 11,
          max_loss_pct |-> 50]

\* GridHedgeStrategy.get_parameters(): the defaults the strategy reads
\* (size_multiplier in tenths, the other fractions per mille)
DefaultParams ==
    [grid_levels |-> 5, grid_spacing |-> 10, min_profit |-> 5,
     size_multiplier |-> 10, base_order_size |-> 10]

\* _params of the strategy a GridBacktester owns: the defaults overridden by
\* the configuration of its symbol.  __init__ hands the configuration to
\* GridHedgeStrategy as keyword arguments, which its signature (symbol,
\* params) does not take, and the merge into _params is done by
\* strategies/base_strategy.py, which is not part of the sources: the
\* strategy is taken as built with params = the configuration.
BacktestParams(sym) ==
    [grid_levels     |-> DefaultParams.grid_levels,
     min_profit      |-> DefaultParams.min_profit,
     grid_spacing    |-> GridConfig(sym).grid_spacing,
     base_order_size |-> GridConfig(sym).base_order_size,
     size_multiplier |-> GridConfig(sym).size_multiplier,
     max_loss_pct    |-> GridConfig(sym).max_loss_pct]

\* GridLevel.__init__
NewLevel(price, type, size) ==
    [price |-> price, type |-> type, size |-> size, paired_level |-> 0,
     order_id |-> 0, is_active |-> TRUE, is_filled |-> FALSE,
     fill_price |-> NoValue, fill_time |-> NoValue, profit |-> 0]

\* GridLevel.pair_with on two objects of the list lv
PairWith_OneWay(lv, a, b) == [lv EXCEPT ![a].paired_level = b]

PairWith(lv, a, b) ==
    [lv EXCEPT ![a].paired_level = b, ![b].paired_level = a]

\* next((l for l in reversed(levels) if l.type == 'BUY' and
\*       l.paired_level is None), None); 0 for None
RECURSIVE LastUnpairedBuy(_, _)
LastUnpairedBuy(lv, k) ==
    IF k = 0 THEN 0
    ELSE IF lv[k].type = "BUY" /\ lv[k].paired_level = 0 THEN k
    ELSE LastUnpairedBuy(lv, k - 1)

\* price of iteration i: min_price + i * current_price * grid_spacing, with
\* min_price = current_price - current_price*grid_spacing*grid_levels/2
GridPrice(params, current_price, i) ==
    (current_price * (2 * PerMille - params.grid_spacing * params.grid_levels
                      + 2 * i * params.grid_spacing)) \div (2 * PerMille)

\* size of iteration i:
\* base_order_size * (1 + (i // 2) * (size_multiplier - 1))
GridSize(params, i) ==
    (params.base_order_size * (10 + (i \div 2) * (params.size_multiplier - 10)))
        \div 10

\* body of the loop of calculate_grid_levels for iteration i on the list lv
CalcStep(params, current_price, i, lv) ==
    LET price  == GridPrice(params, current_price, i)
        size   == GridSize(params, i)
        lvBuy  == IF price < current_price
                  THEN Append(lv, NewLevel(price, "BUY", size))
                  ELSE lv
        lvSell == IF price > current_price
                  THEN Append(lvBuy, NewLevel(price, "SELL", size))
                  ELSE lvBuy
    IN  IF price > current_price /\ Len(lvSell) >= 2
        THEN LET buy_level == LastUnpairedBuy(lvSell, Len(lvSell))
             IN  IF buy_level # 0
                 THEN PairWith(lvSell, buy_level, Len(lvSell))
                 ELSE lvSell
        ELSE lvSell

RECURSIVE CalcLoop(_, _, _, _)
CalcLoop(params, current_price, i, lv) ==
    IF i >= params.grid_levels * 2 THEN lv
    ELSE CalcLoop(params, current_price, i + 1,
                  CalcStep(params, current_price, i, lv))

\* calculate_grid_levels: the new list; paired_level indexes the same list
CalculateGridLevels(params, current_price) ==
    CalcLoop(params, current_price, 0, << >>)

\* the objects of a new list placed after base objects that exist already
Relocate(lv, base) ==
    [k \in DOMAIN lv |->
        IF lv[k].paired_level = 0 THEN lv[k]
        ELSE [lv[k] EXCEPT !.paired_level = lv[k].paired_level + base]]

SeqMin(S) == CHOOSE x \in S : \A y \in S : x <= y

SeqMax(S) == CHOOSE x \in S : \A y \in S : x >= y

\* should_adjust_grid
ShouldAdjustGrid(heap, gl, current_price) ==
    IF gl = << >> THEN TRUE
    ELSE LET prices      == { heap[gl[k]].price : k \in DOMAIN gl }
             min_price   == SeqMin(prices)
             max_price   == SeqMax(prices)
             price_range == max_price - min_price
             \* buffer = price_range * 0.1; both sides scaled by 10
         IN  \/ 10 * current_price < 10 * min_price + price_range
             \/ 10 * current_price > 10 * max_price - price_range

\* a selection that keeps the unfilled levels as well
SelectFilled_KeepAll(heap, gl) == gl

\* [level for level in self.grid_levels if level.is_filled]
SelectFilled(heap, gl) == SelectSeq(gl, LAMBDA id : heap[id].is_filled)

\* adjust_grid: the heap and grid_levels after the call
AdjustGrid(params, heap, gl, current_price) ==
    LET new_levels == CalculateGridLevels(params, current_price)
        base       == Len(heap)
    IN  [levels      |-> heap \o Relocate(new_levels, base),
         grid_levels |-> SelectFilled(heap, gl)
                         \o [k \in DOMAIN new_levels |-> base + k]]

\* level.size * price
PositionValue(size, price) == size * price

\* position_value * commission_rate
Commission(size, price, rate) == (PositionValue(size, price) * rate) \div PerMille

\* the capital check of _execute_trade: the trade is skipped
InsufficientCapital_NoCheck(capital, position_value, commission) == FALSE

InsufficientCapital(capital, position_value, commission) ==
    position_value + commission > capital

\* _execute_trade on level id at price; st = [levels, capital, trades]
GridExecuteTrade(st, rate, id, price, timestamp) ==
    LET level          == st.levels[id]
        position_value == PositionValue(level.size, price)
        commission     == Commission(level.size, price, rate)
    IN  IF InsufficientCapital(st.capital, position_value, commission)
        THEN st
        ELSE [levels  |-> [st.levels EXCEPT ![id].is_filled = TRUE,
                                            ![id].fill_price = price,
                                            ![id].fill_time = timestamp],
              capital |-> IF level.type = "BUY"
                          THEN st.capital - commission - position_value
                          ELSE st.capital - commission + position_value,
              trades  |-> Append(st.trades,
                                 [timestamp  |-> timestamp,
                                  type       |-> level.type,
                                  price      |-> price,
                                  size       |-> level.size,
                                  commission |-> commission,
                                  value      |-> position_value,
                                  level      |-> id])]   \* level: ghost field

\* _process_grid_levels passes over the level (grid_backtester.py:86)
SkipsLevel_NoFilledCheck(level) == ~level.is_active

SkipsLevel(level) == ~level.is_active \/ level.is_filled

\* price crosses the level (grid_backtester.py:90-91)
Crosses(level, current_price) ==
    \/ level.type = "BUY" /\ current_price <= level.price
    \/ level.type = "SELL" /\ current_price >= level.price

\* _process_grid_levels from position k of grid_levels on
RECURSIVE ProcessGridLevels(_, _, _, _, _, _)
ProcessGridLevels(st, gl, k, rate, current_price, timestamp) ==
    IF k > Len(gl) THEN st
    ELSE LET level == st.levels[gl[k]]
             st2   == IF SkipsLevel(level)
                      THEN st
                      ELSE IF Crosses(level, current_price)
                      THEN GridExecuteTrade(st, rate, gl[k], current_price,
                                            timestamp)
                      ELSE st
         IN  ProcessGridLevels(st2, gl, k + 1, rate, current_price, timestamp)

\* _calculate_pair_profit as the fraction num/den (0/1 for the early return)
CalculatePairProfit(heap, id) ==
    LET level == heap[id]
    IN  IF level.paired_level = 0 \/ ~level.is_filled
           \/ ~heap[level.paired_level].is_filled
        THEN [num |-> 0, den |-> 1]
        ELSE LET paired     == heap[level.paired_level]
                 buy_price  == IF level.type = "BUY" THEN level.fill_price
                               ELSE paired.fill_price
                 sell_price == IF level.type = "BUY" THEN paired.fill_price
                               ELSE level.fill_price
             IN  [num |-> sell_price - buy_price, den |-> buy_price]

\* _is_paired_trade_profitable
IsPairedTradeProfitable(heap, id) ==
    IF heap[id].paired_level = 0 \/ ~heap[heap[id].paired_level].is_filled
    THEN FALSE
    ELSE CalculatePairProfit(heap, id).num > 0

\* _close_position_pair; st = [levels, total_profit, trades_history]
ClosePositionPair(st, id) ==
    LET level == st.levels[id]
    IN  IF level.paired_level = 0 THEN st
        ELSE LET paired == st.levels[level.paired_level]
                 profit == CalculatePairProfit(st.levels, id)
             IN  [levels |-> [st.levels EXCEPT
                                 ![id].is_active = FALSE,
                                 ![level.paired_level].is_active = FALSE],
                  total_profit |-> Append(st.total_profit, profit),
                  trades_history |->
                      Append(st.trades_history,
                             [open_time  |-> IF level.fill_time <= paired.fill_time
                                             THEN level.fill_time
                                             ELSE paired.fill_time,
                              buy_price  |-> IF level.type = "BUY"
                                             THEN level.fill_price
                                             ELSE paired.fill_price,
                              sell_price |-> IF level.type = "SELL"
                                             THEN level.fill_price
                                             ELSE paired.fill_price,
                              size       |-> level.size,
                              profit     |-> profit,
                              level      |-> id])]   \* level: ghost field

\* the decision of manage_positions to close the pair of a level
ShouldClosePair(params, heap, id) ==
    LET profit == CalculatePairProfit(heap, id)
    IN  IF profit.num * PerMille >= params.min_profit * profit.den
        THEN TRUE
        ELSE IF profit.num * PerMille <= -params.max_loss_pct * profit.den
        THEN IsPairedTradeProfitable(heap, id)
        ELSE FALSE

\* manage_positions from position k of grid_levels on
RECURSIVE ManagePositions(_, _, _, _)
ManagePositions(st, params, gl, k) ==
    IF k > Len(gl) THEN st
    ELSE LET id    == gl[k]
             level == st.levels[id]
             st2   == IF ~level.is_filled THEN st
                      ELSE IF level.paired_level # 0
                              /\ st.levels[level.paired_level].is_filled
                              /\ ShouldClosePair(params, st.levels, id)
                      THEN ClosePositionPair(st, id)
                      ELSE st
         IN  ManagePositions(st2, params, gl, k + 1)

GridInitBacktest ==
    /\ driver = "backtest"
    /\ symbol \in Symbols
    /\ strategy_params = BacktestParams(symbol)
    /\ gb_initial_capital \in GridCapitals
    /\ commission_rate \in CommissionRates
    /\ current_capital = gb_initial_capital
    /\ gb_equity_curve = << >>
    /\ gb_trades = << >>
    /\ gb_i = 0
    /\ levels = << >>
    /\ grid_levels = << >>
    /\ total_profit = << >>
    /\ trades_history = << >>
    /\ live_grid = << >>
    /\ active_orders = {}
    /\ orders = << >>

GridIdle ==
    /\ driver = Null
    /\ symbol = Null
    /\ strategy_params = << >>
    /\ gb_initial_capital = 0
    /\ commission_rate = 0
    /\ current_capital = 0
    /\ gb_equity_curve = << >>
    /\ gb_trades = << >>
    /\ gb_i = 0
    /\ levels = << >>
    /\ grid_levels = << >>
    /\ total_profit = << >>
    /\ trades_history = << >>
    /\ live_grid = << >>
    /\ active_orders = {}
    /\ orders = << >>

\* the equity point run_backtest records for a bar
EquityPoint(timestamp, capital, current_price) ==
    [timestamp |-> timestamp, equity |-> capital, price |-> current_price]

\* an iteration of run_backtest with i < 20: only the equity is recorded
WarmupBar(close) ==
    /\ driver = "backtest"
    /\ gb_i < WarmupBars
    /\ gb_equity_curve' = Append(gb_equity_curve,
                                 EquityPoint(gb_i, current_capital,
                                             close * PriceScale))
    /\ gb_i' = gb_i + 1
    /\ UNCHANGED <<driver, symbol, strategy_params, gb_initial_capital,
                   commission_rate, current_capital, gb_trades, levels,
                   grid_levels, total_profit, trades_history, live_grid,
                   active_orders, orders>>
    /\ UNCHANGED <<coreVars, optVars, calcVars, indVars, sigVars, btVars,
                 regVars, parVars, enumVars, metVars>>

\* an iteration of run_backtest with i >= 20
GridBar(close) ==
    /\ driver = "backtest"
    /\ gb_i >= WarmupBars
    /\ gb_i < WarmupBars + MaxGridBars
    /\ \E current_price \in {close * PriceScale} :
       \* should_adjust_grid / adjust_grid
       \E adjusted \in
              {IF ShouldAdjustGrid(levels, grid_levels, current_price)
               THEN AdjustGrid(strategy_params, levels, grid_levels,
                               current_price)
               ELSE [levels |-> levels, grid_levels |-> grid_levels]} :
       \* _process_grid_levels
       \E processed \in
              {ProcessGridLevels([levels  |-> adjusted.levels,
                                  capital |-> current_capital,
                                  trades  |-> gb_trades],
                                 adjusted.grid_levels, 1, commission_rate,
                                 current_price, gb_i)} :
       \* manage_positions
       \E managed \in
              {ManagePositions([levels         |-> processed.levels,
                                total_profit   |-> total_profit,
                                trades_history |-> trades_history],
                               strategy_params, adjusted.grid_levels, 1)} :
           /\ levels' = managed.levels
           /\ grid_levels' = adjusted.grid_levels
           /\ current_capital' = processed.capital
           /\ gb_trades' = processed.trades
           /\ total_profit' = managed.total_profit
           /\ trades_history' = managed.trades_history
           /\ gb_equity_curve' = Append(gb_equity_curve,
                                        EquityPoint(gb_i, processed.capital,
                                                    current_price))
    /\ gb_i' = gb_i + 1
    /\ UNCHANGED <<driver, symbol, strategy_params, gb_initial_capital,
                   commission_rate, live_grid, active_orders, orders>>
    /\ UNCHANGED <<coreVars, optVars, calcVars, indVars, sigVars, btVars,
                 regVars, parVars, enumVars, metVars>>

GridNext ==
    \/ \E close \in WarmupCloses : WarmupBar(close)
    \/ \E close \in GridCloses : GridBar(close)

(***************************************************************************)
(* GridExecutor (execution/grid_executor.py), driven as run_live_trading   *)
(* of examples/grid_strategy_example.py drives it: the levels of           *)
(* calculate_grid_levels are handed to place_grid_orders, and the          *)
(* executor's other operations are then called in any order.  The exchange *)
(* is the environment: it accepts or rejects an order, fills an open order *)
(* at any time, and any call to it may raise BinanceAPIException.          *)
(***************************************************************************)

\* grid_levels values of the strategy whose levels are traded live
LiveGridLevels == {2}

\* at most this many calls to the exchange raise within one operation
MaxApiErrors == 1

\* _params of a strategy built from the defaults with grid_levels overridden
LiveParams(n) ==
    [grid_levels     |-> n,
     min_profit      |-> DefaultParams.min_profit,
     grid_spacing    |-> DefaultParams.grid_spacing,
     base_order_size |-> DefaultParams.base_order_size,
     size_multiplier |-> DefaultParams.size_multiplier]

\* the sets of calls that raise within one operation
ApiErrorSets(S) == { F \in SUBSET S : Cardinality(F) <= MaxApiErrors }

GridInitLive ==
    /\ driver = "live"
    /\ symbol = "BTCUSDT"        \* the default symbol of run_live_trading
    /\ \E n \in LiveGridLevels : strategy_params = LiveParams(n)
    /\ gb_initial_capital = 0
    /\ commission_rate = 0
    /\ current_capital = 0
    /\ gb_equity_curve = << >>
    /\ gb_trades = << >>
    /\ gb_i = 0
    /\ levels = << >>
    /\ grid_levels = << >>
    /\ total_profit = << >>
    /\ trades_history = << >>
    /\ live_grid = << >>
    /\ active_orders = {}
    /\ orders = << >>

\* place_grid_orders from position k of the list on; st = [levels,
\* active_orders, orders]; rejected: the levels whose _place_order returns
\* None (risk limits exceeded or BinanceAPIException)
RECURSIVE PlaceGridOrders(_, _, _, _)
PlaceGridOrders(st, gl, k, rejected) ==
    IF k > Len(gl) THEN st
    ELSE LET id    == gl[k]
             level == st.levels[id]
             oid   == Len(st.orders) + 1
             st2   == IF ~level.is_active \/ level.order_id # 0 THEN st
                      ELSE IF id \in rejected THEN st
                      ELSE [levels |-> [st.levels EXCEPT ![id].order_id = oid],
                            active_orders |-> st.active_orders \cup {<<oid, id>>},
                            orders |-> Append(st.orders,
                                              [status |-> "NEW",
                                               price  |-> level.price,
                                               time   |-> oid])]
         IN  PlaceGridOrders(st2, gl, k + 1, rejected)

\* the entries of active_orders in insertion order (order ids grow)
RECURSIVE OrderItems(_)
OrderItems(ao) ==
    IF ao = {} THEN << >>
    ELSE LET first == CHOOSE e \in ao : \A f \in ao : e[1] <= f[1]
         IN  <<first>> \o OrderItems(ao \ {first})

\* update_filled_orders over the items from position k on; st = [levels,
\* active_orders]; failing: the order ids whose get_order raises
RECURSIVE UpdateFilledOrders(_, _, _, _, _)
UpdateFilledOrders(st, items, k, exchange, failing) ==
    IF k > Len(items) THEN st
    ELSE LET oid == items[k][1]
             id  == items[k][2]
             st2 == IF oid \in failing THEN st
                    ELSE IF exchange[oid].status = "FILLED"
                    THEN [levels |-> [st.levels EXCEPT
                                         ![id].is_filled = TRUE,
                                         ![id].fill_price = exchange[oid].price,
                                         ![id].fill_time = exchange[oid].time],
                          active_orders |-> st.active_orders \ {items[k]}]
                    ELSE st
         IN  UpdateFilledOrders(st2, items, k + 1, exchange, failing)

\* str(level.order_id) in self.active_orders, evaluated after order_id was
\* set to None: the key 'None' is looked up
HasOrderKey(ao, order_id) ==
    order_id # 0 /\ \E e \in ao : e[1] = order_id

\* cancel_grid_orders from position k of the list on; st = [levels,
\* active_orders, orders]; failing: the levels whose cancel_order raises
RECURSIVE CancelGridOrders(_, _, _, _)
CancelGridOrders(st, gl, k, failing) ==
    IF k > Len(gl) THEN st
    ELSE LET id    == gl[k]
             level == st.levels[id]
             oid   == level.order_id
             st2   == IF oid = 0 \/ level.is_filled THEN st
                      ELSE IF id \in failing \/ st.orders[oid].status # "NEW"
                      THEN st       \* BinanceAPIException, logged
                      ELSE LET lv2 == [st.levels EXCEPT ![id].order_id = 0,
                                                        ![id].is_active = FALSE]
                           IN  [levels |-> lv2,
                                active_orders |->
                                    IF HasOrderKey(st.active_orders,
                                                   lv2[id].order_id)
                                    THEN { e \in st.active_orders :
                                               e[1] # lv2[id].order_id }
                                    ELSE st.active_orders,
                                orders |-> [st.orders EXCEPT
                                               ![oid].status = "CANCELED"]]
         IN  CancelGridOrders(st2, gl, k + 1, failing)

\* run_live_trading: calculate_grid_levels, then place_grid_orders
LiveStart(close, rejected) ==
    /\ driver = "live"
    /\ live_grid = << >>
    /\ \E new_levels \in {CalculateGridLevels(strategy_params,
                                              close * PriceScale)} :
       \E placed \in {PlaceGridOrders([levels        |-> new_levels,
                                       active_orders |-> active_orders,
                                       orders        |-> orders],
                                      [k \in DOMAIN new_levels |-> k], 1,
                                      rejected)} :
           /\ live_grid' = [k \in DOMAIN new_levels |-> k]
           /\ levels' = placed.levels
           /\ active_orders' = placed.active_orders
           /\ orders' = placed.orders
    /\ UNCHANGED <<driver, symbol, strategy_params, gb_initial_capital,
                   commission_rate, current_capital, gb_equity_curve,
                   gb_trades, gb_i, grid_levels, total_profit, trades_history>>
    /\ UNCHANGED <<coreVars, optVars, calcVars, indVars, sigVars, btVars,
                 regVars, parVars, enumVars, metVars>>

\* a later call of place_grid_orders on the same list
LivePlace(rejected) ==
    /\ driver = "live"
    /\ live_grid # << >>
    /\ \E placed \in {PlaceGridOrders([levels        |-> levels,
                                       active_orders |-> active_orders,
                                       orders        |-> orders],
                                      live_grid, 1, rejected)} :
           /\ levels' = placed.levels
           /\ active_orders' = placed.active_orders
           /\ orders' = placed.orders
    /\ UNCHANGED <<driver, symbol, strategy_params, gb_initial_capital,
                   commission_rate, current_capital, gb_equity_curve,
                   gb_trades, gb_i, grid_levels, total_profit, trades_history,
                   live_grid>>
    /\ UNCHANGED <<coreVars, optVars, calcVars, indVars, sigVars, btVars,
                 regVars, parVars, enumVars, metVars>>

\* the exchange fills an open order
ExchangeFill(oid) ==
    /\ driver = "live"
    /\ oid \in DOMAIN orders
    /\ orders[oid].status = "NEW"
    /\ orders' = [orders EXCEPT ![oid].status = "FILLED"]
    /\ UNCHANGED <<driver, symbol, strategy_params, gb_initial_capital,
                   commission_rate, current_capital, gb_equity_curve,
                   gb_trades, gb_i, levels, grid_levels, total_profit,
                   trades_history, live_grid, active_orders>>
    /\ UNCHANGED <<coreVars, optVars, calcVars, indVars, sigVars, btVars,
                 regVars, parVars, enumVars, metVars>>

\* update_filled_orders
LiveUpdate(failing) ==
    /\ driver = "live"
    /\ active_orders # {}
    /\ \E updated \in {UpdateFilledOrders([levels        |-> levels,
                                           active_orders |-> active_orders],
                                          OrderItems(active_orders), 1,
                                          orders, failing)} :
           /\ levels' = updated.levels
           /\ active_orders' = updated.active_orders
    /\ UNCHANGED <<driver, symbol, strategy_params, gb_initial_capital,
                   commission_rate, current_capital, gb_equity_curve,
                   gb_trades, gb_i, grid_levels, total_profit, trades_history,
                   live_grid, orders>>
    /\ UNCHANGED <<coreVars, optVars, calcVars, indVars, sigVars, btVars,
                 regVars, parVars, enumVars, metVars>>

\* cancel_grid_orders
LiveCancel(failing) ==
    /\ driver = "live"
    /\ live_grid # << >>
    /\ \E cancelled \in {CancelGridOrders([levels        |-> levels,
                                           active_orders |-> active_orders,
                                           orders        |-> orders],
                                          live_grid, 1, failing)} :
           /\ levels' = cancelled.levels
           /\ active_orders' = cancelled.active_orders
           /\ orders' = cancelled.orders
    /\ UNCHANGED <<driver, symbol, strategy_params, gb_initial_capital,
                   commission_rate, current_capital, gb_equity_curve,
                   gb_trades, gb_i, grid_levels, total_profit, trades_history,
                   live_grid>>
    /\ UNCHANGED <<coreVars, optVars, calcVars, indVars, sigVars, btVars,
                 regVars, parVars, enumVars, metVars>>

\* the identities a list of n levels can hold
LevelIds == 1..(2 * SeqMax(LiveGridLevels))

LiveNext ==
    \/ \E close \in WarmupCloses, rejected \in ApiErrorSets(LevelIds) :
           LiveStart(close, rejected)
    \/ \E rejected \in ApiErrorSets(LevelIds) : LivePlace(rejected)
    \/ \E oid \in LevelIds : ExchangeFill(oid)
    \/ \E failing \in ApiErrorSets(LevelIds) : LiveUpdate(failing)
    \/ \E failing \in ApiErrorSets(LevelIds) : LiveCancel(failing)

(***************************************************************************)
(* calculate_grid_levels on its own: any current price, number of levels,  *)
(* spacing and size parameters.                                            *)
(***************************************************************************)
MaxCalcLevels == 5

\* grid_spacing values, per mille
CalcSpacings == {5, 10, 12}

\* size_multiplier values, in tenths
CalcMultipliers == {10, 11}

CalcInit ==
    /\ calc_params \in [grid_levels     : 1..MaxCalcLevels,
                        grid_spacing    : CalcSpacings,
                        base_order_size : {10},
                        size_multiplier : CalcMultipliers]
    /\ calc_price \in { c * PriceScale : c \in GridCloses }
    /\ calc_result = << >>

CalcIdle ==
    /\ calc_params = << >>
    /\ calc_price = 0
    /\ calc_result = << >>

\* a call of calculate_grid_levels
CalcCall ==
    /\ calc_result = << >>
    /\ calc_result' = <<CalculateGridLevels(calc_params, calc_price)>>
    /\ UNCHANGED <<calc_params, calc_price>>
    /\ UNCHANGED <<coreVars, optVars, gridVars, indVars, sigVars, btVars,
                 regVars, parVars, enumVars, metVars>>

CalcNext == CalcCall

(***************************************************************************)
(* 4. Indicator preprocessor (analysis/indicators.py).                     *)
(*                                                                         *)
(* A frame is the sequence of its rows; a row keeps its index label, its   *)
(* close and the rolling-mean columns sma_20, sma_50 and sma_200.  A mean  *)
(* is kept as the pair <<sum, count>> of its window.  The columns built on *)
(* exponential smoothing (rsi, macd, atr) and the bands are not modelled.  *)
(***************************************************************************)
\* INDICATOR_SETTINGS['sma']
SmaWindows == <<20, 50, 200>>

MinChunkSize == 250

OverlapPeriod == 200

MaxWorkers == 2

\* lengths of historical_data
IndLens == {120, 260, 300, 501}

\* closes of the rows
IndCloses == {1, 2}

\* the closes step from one value to another at one of these rows
IndSteps == {100, 240, 255}

RECURSIVE SumRange(_, _, _)
SumRange(data, lo, hi) ==
    IF lo > hi THEN 0
    ELSE IF lo = hi THEN data[lo]
    ELSE LET mid == (lo + hi) \div 2
         IN  SumRange(data, lo, mid) + SumRange(data, mid + 1, hi)

\* series.rolling(window, min_periods=0).mean() at row k of a frame: the
\* mean of the rows of the frame in the window ending at k
RollingMean(closes, k, window) ==
    LET lo == IF k - window + 1 < 1 THEN 1 ELSE k - window + 1
    IN  <<SumRange(closes, lo, k), k - lo + 1>>

\* calculate_indicators on the rows first..last of the data: the frame with
\* the sma columns, computed from the rows of that frame alone
CalculateIndicators(data, first, last) ==
    LET closes == SubSeq(data, first, last)
    IN  [k \in 1..(last - first + 1) |->
            [index |-> first + k - 1,
             close |-> closes[k],
             sma   |-> [w \in DOMAIN SmaWindows |->
                           RollingMean(closes, k, SmaWindows[w])]]]

\* optimal_chunk_size
OptimalChunkSize(n, max_workers) ==
    LET share == n \div max_workers
    IN  IF share > MinChunkSize THEN share ELSE MinChunkSize

\* number of chunks: len(range(0, n, optimal_chunk_size))
NumChunks(n, max_workers) ==
    (n + OptimalChunkSize(n, max_workers) - 1)
        \div OptimalChunkSize(n, max_workers)

\* the chunk with number c (from 0): rows i .. chunk_end - 1 of the data,
\* counted from 0, with i = c * optimal_chunk_size
ChunkStart(n, max_workers, c) == c * OptimalChunkSize(n, max_workers)

ChunkEnd(n, max_workers, c) ==
    LET chunk_size == OptimalChunkSize(n, max_workers) + OverlapPeriod
        i          == ChunkStart(n, max_workers, c)
    IN  IF i + chunk_size < n THEN i + chunk_size ELSE n

\* a head that keeps the overlap rows of the chunk
ILocHead_KeepOverlap(frame, count) == frame

\* processed_chunk.iloc[:optimal_chunk_size]
ILocHead(frame, count) ==
    SubSeq(frame, 1, IF count < Len(frame) THEN count ELSE Len(frame))

\* the chunks sorted by their start index
RECURSIVE SortByStart(_)
SortByStart(chunks) ==
    IF chunks = << >> THEN << >>
    ELSE LET k == CHOOSE i \in DOMAIN chunks :
                      \A j \in DOMAIN chunks : chunks[i].start <= chunks[j].start
         IN  <<chunks[k]>> \o SortByStart(RemoveAt(chunks, k))

RECURSIVE Concat(_)
Concat(chunks) ==
    IF chunks = << >> THEN << >>
    ELSE chunks[1].frame \o Concat(Tail(chunks))

\* the data of a run: closes stepping from lo to hi at row step
StepData(n, lo, hi, step) == [k \in 1..n |-> IF k <= step THEN lo ELSE hi]

IndInit ==
    /\ \E n \in IndLens, lo \in IndCloses, hi \in IndCloses, step \in IndSteps :
           ind_data = StepData(n, lo, hi, step)
    /\ ind_workers \in 1..MaxWorkers
    /\ ind_pc = "collect"
    /\ ind_pending = 0..(NumChunks(Len(ind_data), ind_workers) - 1)
    /\ ind_processed = << >>
    /\ ind_out = << >>

IndIdle ==
    /\ ind_data = << >>
    /\ ind_workers = 0
    /\ ind_pc = "idle"
    /\ ind_pending = {}
    /\ ind_processed = << >>
    /\ ind_out = << >>

\* one iteration of the loop over as_completed: chunk c has been processed
\* by process_chunk_with_indicators and is collected
IndCollect(c) ==
    /\ ind_pc = "collect"
    /\ c \in ind_pending
    /\ LET n     == Len(ind_data)
           start == ChunkStart(n, ind_workers, c)
           frame == CalculateIndicators(ind_data, start + 1,
                                        ChunkEnd(n, ind_workers, c))
           kept  == IF c < NumChunks(n, ind_workers) - 1
                    THEN ILocHead(frame, OptimalChunkSize(n, ind_workers))
                    ELSE frame
       IN  ind_processed' = Append(ind_processed,
                                   [start |-> start, frame |-> kept])
    /\ ind_pending' = ind_pending \ {c}
    /\ UNCHANGED <<ind_data, ind_workers, ind_pc, ind_out>>
    /\ UNCHANGED <<coreVars, optVars, gridVars, calcVars, sigVars, btVars,
                 regVars, parVars, enumVars, metVars>>

\* processed_chunks.sort(...); return pd.concat(...)
IndReturn ==
    /\ ind_pc = "collect"
    /\ ind_pending = {}
    /\ ind_out' = <<Concat(SortByStart(ind_processed))>>
    /\ ind_pc' = "done"
    /\ UNCHANGED <<ind_data, ind_workers, ind_pending, ind_processed>>
    /\ UNCHANGED <<coreVars, optVars, gridVars, calcVars, sigVars, btVars,
                 regVars, parVars, enumVars, metVars>>

IndNext ==
    \/ \E c \in ind_pending : IndCollect(c)
    \/ IndReturn

(***************************************************************************)
(* 5. GridHedgeStrategy.generate_signals (strategies/grid_hedge_strategy.py)*)
(*                                                                         *)
(* The frame returned is the sequence of its rows with the columns signal  *)
(* and grid_level; position_size and take_profit are functions of these    *)
(* two and of the parameters and are not kept.                             *)
(***************************************************************************)
MaxSigLen == 3

\* closes of the bars
SigCloses == {95, 100, 105}

\* grid_levels values of the strategy
SigGridLevels == {1, 5}

\* grid_spacing values of the strategy, per mille
SigSpacings == {10, 50}

\* the grid levels, in order: price * (1 + grid_spacing * i) for i in
\* range(-num_levels, num_levels + 1), scaled by PerMille
SignalGrid(params, price) ==
    [idx \in 1..(2 * params.grid_levels + 1) |->
        price * (PerMille + params.grid_spacing * (idx - 1 - params.grid_levels))]

\* the body of the loop over the grid levels for one pair of bars: the row
\* of index i+1 after the levels from position idx on
RECURSIVE CrossLevels(_, _, _, _, _)
CrossLevels(row, grid, idx, current_price, next_price) ==
    IF idx > Len(grid) THEN row
    ELSE LET level == grid[idx]
             row2  == IF current_price * PerMille >= level
                         /\ next_price * PerMille < level
                      THEN [signal |-> 1, grid_level |-> idx - 1]
                      ELSE IF current_price * PerMille <= level
                              /\ next_price * PerMille > level
                      THEN [signal |-> -1, grid_level |-> idx - 1]
                      ELSE row
         IN  CrossLevels(row2, grid, idx + 1, current_price, next_price)

\* generate_signals: the grid is built around the last close of the data
GenerateSignals(params, closes) ==
    LET price == closes[Len(closes)]          \* df['close'].iloc[-1]
        grid  == SignalGrid(params, price)
    IN  [k \in DOMAIN closes |->
            IF k = 1 THEN [signal |-> 0, grid_level |-> 0]
            ELSE CrossLevels([signal |-> 0, grid_level |-> 0], grid, 1,
                             closes[k - 1], closes[k])]

\* the sequences of 1..MaxSigLen closes
SigSequences == UNION { [1..n -> SigCloses] : n \in 1..MaxSigLen }

\* length of the longest common prefix of two sequences
RECURSIVE CommonPrefix(_, _, _)
CommonPrefix(a, b, k) ==
    IF k < Len(a) /\ k < Len(b) /\ a[k + 1] = b[k + 1]
    THEN CommonPrefix(a, b, k + 1)
    ELSE k

SigInit ==
    /\ sig_params \in [grid_levels : SigGridLevels, grid_spacing : SigSpacings]
    /\ sig_a \in SigSequences
    /\ sig_b \in SigSequences
    /\ CommonPrefix(sig_a, sig_b, 0) >= 1
    /\ sig_out_a = << >>
    /\ sig_out_b = << >>

SigIdle ==
    /\ sig_params = << >>
    /\ sig_a = << >>
    /\ sig_b = << >>
    /\ sig_out_a = << >>
    /\ sig_out_b = << >>

\* generate_signals called on the first sequence
SigRunA ==
    /\ sig_a # << >>
    /\ sig_out_a = << >>
    /\ sig_out_a' = <<GenerateSignals(sig_params, sig_a)>>
    /\ UNCHANGED <<sig_params, sig_a, sig_b, sig_out_b>>
    /\ UNCHANGED <<coreVars, optVars, gridVars, calcVars, indVars, btVars,
                 regVars, parVars, enumVars, metVars>>

\* generate_signals called on the second sequence
SigRunB ==
    /\ sig_b # << >>
    /\ sig_out_b = << >>
    /\ sig_out_b' = <<GenerateSignals(sig_params, sig_b)>>
    /\ UNCHANGED <<sig_params, sig_a, sig_b, sig_out_a>>
    /\ UNCHANGED <<coreVars, optVars, gridVars, calcVars, indVars, btVars,
                 regVars, parVars, enumVars, metVars>>

SigNext == SigRunA \/ SigRunB

(***************************************************************************)
(* 6. backtesting.Backtester (backtesting/backtester.py) driving a         *)
(*    HedgingStrategy through analyze (strategies/hedging_strategy.py).    *)
(*                                                                         *)
(* Money is an integer number of units; initial_capital is 2^12 * 5^8      *)
(* units and the opens and closes of the bars are 50 or 100, so that the   *)
(* 1% position cost and every quantity * price product of a run is a       *)
(* whole number of units.  A position keeps cost = quantity * entry_price  *)
(* in place of quantity.                                                   *)
(***************************************************************************)
MaxBtBars == 2

\* run is called this many times on the same Backtester and strategy
BtRuns == 2

BtInitialCapital == 1600000000

\* the rows of the data: open and close
BtBarKinds == { [open |-> o, close |-> c] : o \in {50, 100}, c \in {50, 100} }

BtData == UNION { [1..n -> BtBarKinds] : n \in 1..MaxBtBars }

\* (close - open) / open * 100, as the fraction num/den
PriceChangePct(bar) ==
    [num |-> (bar.close - bar.open) * 100, den |-> bar.open]

\* _should_hedge: price_change < -2.0
ShouldHedge(bar) ==
    PriceChangePct(bar).num < (0 - 2) * PriceChangePct(bar).den

\* _should_exit_hedge: price_change > 1.0
ShouldExitHedge(bar) ==
    PriceChangePct(bar).num > PriceChangePct(bar).den

\* a signal analyze appends
HedgeSignal(action, side, price) ==
    [action |-> action, side |-> side, price |-> price]

\* HedgingStrategy.analyze: the signals returned and the strategy's fields
\* after the call
Analyze(position, hedge_position, bar) ==
    IF position = Null
    THEN [signals |-> <<HedgeSignal("buy", "long", bar.close)>>,
          position |-> "long", hedge_position |-> hedge_position]
    ELSE IF position = "long"
    THEN IF hedge_position = Null /\ ShouldHedge(bar)
         THEN [signals |-> <<HedgeSignal("buy", "short", bar.close)>>,
               position |-> position, hedge_position |-> "short"]
         ELSE IF hedge_position = "short" /\ ShouldExitHedge(bar)
         THEN [signals |-> <<HedgeSignal("sell", "short", bar.close)>>,
               position |-> position, hedge_position |-> Null]
         ELSE [signals |-> << >>, position |-> position,
               hedge_position |-> hedge_position]
    ELSE [signals |-> << >>, position |-> position,
          hedge_position |-> hedge_position]

\* calculate_position_size(price, balance) * price: 1% of the balance
PositionCost(balance) == balance \div 100

\* quantity * amount for a position
QuantityTimes(pos, amount) == (pos.cost * amount) \div pos.entry_price

\* index of the entry of positions with the given id, 0 if there is none
PositionIndex(positions, id) ==
    IF \E k \in DOMAIN positions : positions[k].id = id
    THEN CHOOSE k \in DOMAIN positions : positions[k].id = id
    ELSE 0

\* self.positions[position_id] = {...}: a new key is appended, an existing
\* key keeps its place and gets the new value
PutPosition(positions, pos) ==
    IF PositionIndex(positions, pos.id) = 0
    THEN Append(positions, pos)
    ELSE [positions EXCEPT ![PositionIndex(positions, pos.id)] = pos]

\* _open_position; st = [capital, positions, trades]
OpenPosition(st, signal, timestamp) ==
    LET pos == [id          |-> <<signal.side, Len(st.trades)>>,
                side        |-> signal.side,
                entry_price |-> signal.price,
                cost        |-> PositionCost(st.capital),
                entry_time  |-> timestamp]
    IN  [st EXCEPT !.positions = PutPosition(st.positions, pos),
                   !.capital   = st.capital - pos.cost]

\* the first position of the side of the signal, 0 if there is none
FirstMatching(positions, side) ==
    IF \E k \in DOMAIN positions : positions[k].side = side
    THEN CHOOSE k \in DOMAIN positions :
             /\ positions[k].side = side
             /\ \A j \in 1..(k - 1) : positions[j].side # side
    ELSE 0

\* _close_position; st = [capital, positions, trades]
ClosePosition(st, signal, timestamp) ==
    LET k == FirstMatching(st.positions, signal.side)
    IN  IF k = 0 THEN st
        ELSE LET pos == st.positions[k]
                 move == IF pos.side = "long"
                         THEN signal.price - pos.entry_price
                         ELSE pos.entry_price - signal.price
             IN  [capital   |-> st.capital + QuantityTimes(pos, signal.price),
                  positions |-> RemoveAt(st.positions, k),
                  trades    |-> Append(st.trades,
                                   [side        |-> pos.side,
                                    entry_price |-> pos.entry_price,
                                    exit_price  |-> signal.price,
                                    pnl         |-> QuantityTimes(pos, move),
                                    entry_time  |-> pos.entry_time,
                                    exit_time   |-> timestamp])]

\* _execute_trades from position k of the signals on
RECURSIVE ExecuteTrades(_, _, _, _)
ExecuteTrades(st, signals, k, timestamp) ==
    IF k > Len(signals) THEN st
    ELSE LET after == IF signals[k].action = "buy"
                      THEN OpenPosition(st, signals[k], timestamp)
                      ELSE IF signals[k].action = "sell"
                      THEN ClosePosition(st, signals[k], timestamp)
                      ELSE st
         IN  ExecuteTrades(after, signals, k + 1, timestamp)

\* _calculate_equity over the first k positions
RECURSIVE CalculateEquity(_, _, _, _)
CalculateEquity(capital, positions, k, current_price) ==
    IF k = 0 THEN capital
    ELSE CalculateEquity(capital, positions, k - 1, current_price)
         + QuantityTimes(positions[k], current_price - positions[k].entry_price)

BtInit ==
    /\ bt_bars \in BtData
    /\ bt_initial_capital = BtInitialCapital
    /\ bt_capital = bt_initial_capital
    /\ bt_positions = << >>
    /\ bt_trades = << >>
    /\ bt_equity_curve = << >>
    /\ bt_returns = << >>
    /\ bt_pc = "idle"
    /\ bt_i = 0
    /\ bt_run = 0
    /\ bt_signals = << >>
    /\ bt_results = << >>
    /\ hs_position = Null
    /\ hs_hedge_position = Null

BtIdle ==
    /\ bt_bars = << >>
    /\ bt_initial_capital = 0
    /\ bt_capital = 0
    /\ bt_positions = << >>
    /\ bt_trades = << >>
    /\ bt_equity_curve = << >>
    /\ bt_returns = << >>
    /\ bt_pc = "off"
    /\ bt_i = 0
    /\ bt_run = 0
    /\ bt_signals = << >>
    /\ bt_results = << >>
    /\ hs_position = Null
    /\ hs_hedge_position = Null

\* run up to the loop: the data is fetched and the tracking lists are reset
BtStartRun ==
    /\ bt_pc = "idle"
    /\ bt_run < BtRuns
    /\ bt_run' = bt_run + 1
    /\ bt_equity_curve' = << >>
    /\ bt_returns' = << >>
    /\ bt_signals' = Append(bt_signals, << >>)
    /\ bt_i' = 0
    /\ bt_pc' = "loop"
    /\ UNCHANGED <<bt_bars, bt_initial_capital, bt_capital, bt_positions,
                   bt_trades, bt_results, hs_position, hs_hedge_position>>
    /\ UNCHANGED <<coreVars, optVars, gridVars, calcVars, indVars, sigVars,
                 regVars, parVars, enumVars, metVars>>

\* one iteration of the loop of run
BtBar ==
    /\ bt_pc = "loop"
    /\ bt_i < Len(bt_bars)
    /\ LET bar      == bt_bars[bt_i + 1]
           analysed == Analyze(hs_position, hs_hedge_position, bar)
           traded   == ExecuteTrades([capital   |-> bt_capital,
                                      positions |-> bt_positions,
                                      trades    |-> bt_trades],
                                     analysed.signals, 1, bt_i)
           equity   == CalculateEquity(traded.capital, traded.positions,
                                       Len(traded.positions), bar.close)
       IN  /\ hs_position' = analysed.position
           /\ hs_hedge_position' = analysed.hedge_position
           /\ bt_signals' = [bt_signals EXCEPT
                                ![bt_run] = Append(@, analysed.signals)]
           /\ bt_positions' = traded.positions
           /\ bt_trades' = traded.trades
           /\ bt_equity_curve' = Append(bt_equity_curve, equity)
           /\ bt_returns' = Append(bt_returns,
                                   IF traded.capital # 0
                                   THEN [num |-> equity - traded.capital,
                                         den |-> traded.capital]
                                   ELSE [num |-> 0, den |-> 1])
           /\ bt_capital' = equity
    /\ bt_i' = bt_i + 1
    /\ UNCHANGED <<bt_bars, bt_initial_capital, bt_pc, bt_run, bt_results>>
    /\ UNCHANGED <<coreVars, optVars, gridVars, calcVars, indVars, sigVars,
                 regVars, parVars, enumVars, metVars>>

\* the end of run: the metrics are computed from the curves of this run
BtFinishRun ==
    /\ bt_pc = "loop"
    /\ bt_i = Len(bt_bars)
    /\ bt_results' = Append(bt_results,
           [equity_curve |-> bt_equity_curve,
            returns      |-> bt_returns,
            total_return |-> [num |-> (bt_equity_curve[Len(bt_equity_curve)]
                                        - bt_initial_capital),
                              den |-> bt_initial_capital],
            total_trades |-> Len(bt_trades)])
    /\ bt_pc' = "idle"
    /\ UNCHANGED <<bt_bars, bt_initial_capital, bt_capital, bt_positions,
                   bt_trades, bt_equity_curve, bt_returns, bt_i, bt_run,
                   bt_signals, hs_position, hs_hedge_position>>
    /\ UNCHANGED <<coreVars, optVars, gridVars, calcVars, indVars, sigVars,
                 regVars, parVars, enumVars, metVars>>

BtNext == BtStartRun \/ BtBar \/ BtFinishRun

\* _execute_trades is called at most this many times on a Backtester
MaxTradeCalls == 3

\* the signals handed to _execute_trades
TradeSignals ==
    { HedgeSignal(action, side, price) :
          action \in {"buy", "sell"}, side \in {"long", "short"},
          price \in {50, 100} }

\* a Backtester as constructed, on which _execute_trades is called directly
TradesInit ==
    /\ bt_bars = << >>
    /\ bt_initial_capital = BtInitialCapital
    /\ bt_capital = bt_initial_capital
    /\ bt_positions = << >>
    /\ bt_trades = << >>
    /\ bt_equity_curve = << >>
    /\ bt_returns = << >>
    /\ bt_pc = "signals"
    /\ bt_i = 0
    /\ bt_run = 1
    /\ bt_signals = << << >> >>
    /\ bt_results = << >>
    /\ hs_position = Null
    /\ hs_hedge_position = Null

\* _execute_trades([signal], market_data), market_data['timestamp'] being
\* the number of the call
ExecuteTradesCall(signal) ==
    /\ bt_pc = "signals"
    /\ bt_i < MaxTradeCalls
    /\ LET traded == ExecuteTrades([capital   |-> bt_capital,
                                    positions |-> bt_positions,
                                    trades    |-> bt_trades],
                                   <<signal>>, 1, bt_i)
       IN  /\ bt_capital' = traded.capital
           /\ bt_positions' = traded.positions
           /\ bt_trades' = traded.trades
    /\ bt_signals' = [bt_signals EXCEPT ![1] = Append(@, <<signal>>)]
    /\ bt_i' = bt_i + 1
    /\ UNCHANGED <<bt_bars, bt_initial_capital, bt_equity_curve, bt_returns,
                   bt_pc, bt_run, bt_results, hs_position, hs_hedge_position>>
    /\ UNCHANGED <<coreVars, optVars, gridVars, calcVars, indVars, sigVars,
                 regVars, parVars, enumVars, metVars>>

TradesNext == \E signal \in TradeSignals : ExecuteTradesCall(signal)

(***************************************************************************)
(* 7. StrategyRegistry (core/strategy.py) and the registration loop of     *)
(*    strategies/__init__.py.                                              *)
(*                                                                         *)
(* A class is its __name__, the identity of its implementation and whether *)
(* it is a subclass of BaseStrategy.  _strategies is the sequence of its   *)
(* items in insertion order.                                               *)
(***************************************************************************)
\* __name__ of the classes offered to the registry
StrategyNames == {"GridStrategy", "BollingerBreakoutStrategy", "CustomStrategy"}

\* implementations that carry the same __name__
Implementations == {1, 2}

StrategyClasses ==
    [name : StrategyNames, impl : Implementations, is_strategy : BOOLEAN]

\* AVAILABLE_STRATEGIES, in the order of the dict
AvailableStrategies ==
    <<[key |-> "GridStrategy",
       class |-> [name |-> "GridStrategy", impl |-> 1, is_strategy |-> TRUE]],
      [key |-> "BollingerBreakoutStrategy",
       class |-> [name |-> "BollingerBreakoutStrategy", impl |-> 1,
                  is_strategy |-> TRUE]]>>

\* position of the key name in a dict, 0 if it is absent
KeyIndex(dict, name) ==
    IF \E k \in DOMAIN dict : dict[k].name = name
    THEN CHOOSE k \in DOMAIN dict : dict[k].name = name
    ELSE 0

\* cls._strategies[strategy_class.__name__] = strategy_class
SetItem(dict, class) ==
    IF KeyIndex(dict, class.name) = 0
    THEN Append(dict, [name |-> class.name, class |-> class])
    ELSE [dict EXCEPT ![KeyIndex(dict, class.name)].class = class]

\* StrategyRegistry.register: the registry after the call and the outcome,
\* the class returned or the error raised
Register(dict, class) ==
    IF ~class.is_strategy
    THEN [strategies |-> dict, result |-> "ValueError"]
    ELSE [strategies |-> SetItem(dict, class), result |-> "returned"]

\* the loop of strategies/__init__.py from position k of AVAILABLE_STRATEGIES
RECURSIVE RegisterAvailable(_, _)
RegisterAvailable(dict, k) ==
    IF k > Len(AvailableStrategies) THEN dict
    ELSE RegisterAvailable(
             IF KeyIndex(dict, AvailableStrategies[k].key) = 0
             THEN Register(dict, AvailableStrategies[k].class).strategies
             ELSE dict,
             k + 1)

RegInit ==
    /\ reg_strategies = << >>
    /\ reg_result = "none"

RegIdle ==
    /\ reg_strategies = << >>
    /\ reg_result = "off"

\* a call of StrategyRegistry.register
RegRegister(class) ==
    /\ reg_result # "off"
    /\ reg_strategies' = Register(reg_strategies, class).strategies
    /\ reg_result' = Register(reg_strategies, class).result
    /\ UNCHANGED <<coreVars, optVars, gridVars, calcVars, indVars, sigVars,
                   btVars, parVars, enumVars, metVars>>

\* the package strategies is imported: its registration loop runs
RegImportStrategies ==
    /\ reg_result # "off"
    /\ reg_strategies' = RegisterAvailable(reg_strategies, 1)
    /\ reg_result' = "imported"
    /\ UNCHANGED <<coreVars, optVars, gridVars, calcVars, indVars, sigVars,
                   btVars, parVars, enumVars, metVars>>

\* a call of StrategyRegistry.get_strategy
RegGetStrategy(name) ==
    /\ reg_result # "off"
    /\ reg_result' = IF KeyIndex(reg_strategies, name) = 0
                     THEN "ValueError" ELSE "returned"
    /\ UNCHANGED reg_strategies
    /\ UNCHANGED <<coreVars, optVars, gridVars, calcVars, indVars, sigVars,
                   btVars, parVars, enumVars, metVars>>

RegNext ==
    \/ \E class \in StrategyClasses : RegRegister(class)
    \/ RegImportStrategies
    \/ \E name \in StrategyNames : RegGetStrategy(name)

(***************************************************************************)
(* 8. BaseStrategy parameters (core/strategy.py): __init__,                *)
(*    validate_parameters, set_parameters, get_parameters.                 *)
(*                                                                         *)
(* A strategy class is its default_parameters and the list its             *)
(* get_required_parameters returns.  The dict get_parameters returned last *)
(* is held by the caller, who may write to it; par_same_object tells       *)
(* whether it is the very dict object the strategy holds.                  *)
(***************************************************************************)
ParamNames == {"grid_size", "amount"}

ParamValues == {1, 2}

\* the dicts over ParamNames
ParamDicts ==
    { d \in SUBSET (ParamNames \X ParamValues) :
          \A x \in d, y \in d : x[1] = y[1] => x = y }

\* {**defaults, **params}
Merge(defaults, params) ==
    { item \in defaults : ~HasKey(params, item[1]) } \cup params

\* a validation that accepts every map
ValidateParameters_NoCheck(parameters, required) == "ok"

\* validate_parameters: ValueError when a required name is missing
ValidateParameters(parameters, required) ==
    IF \A name \in required : HasKey(parameters, name)
    THEN "ok"
    ELSE "ValueError"

\* self.parameters.copy(): the dict returned and whether it is the object
\* the strategy holds
GetParameters_NoCopy(parameters) ==
    [dict |-> parameters, same_object |-> TRUE]

GetParameters(parameters) ==
    [dict |-> parameters, same_object |-> FALSE]

\* dict[key] = value
DictSet(dict, key, value) ==
    { item \in dict : item[1] # key } \cup { <<key, value>> }

ParInit ==
    /\ par_defaults \in ParamDicts
    /\ par_required \in SUBSET ParamNames
    /\ par_state = "class"
    /\ par_parameters = {}
    /\ par_result = "none"
    /\ par_returned = {}
    /\ par_same_object = FALSE

ParIdle ==
    /\ par_defaults = {}
    /\ par_required = {}
    /\ par_state = "off"
    /\ par_parameters = {}
    /\ par_result = "none"
    /\ par_returned = {}
    /\ par_same_object = FALSE

\* BaseStrategy.__init__(symbol, params): the object exists only if the
\* validation passes
ParConstruct(params) ==
    /\ par_state = "class"
    /\ LET merged == Merge(par_defaults, params)
           result == ValidateParameters(merged, par_required)
       IN  /\ par_result' = result
           /\ par_state' = IF result = "ok" THEN "object" ELSE "class"
           /\ par_parameters' = IF result = "ok" THEN merged ELSE {}
    /\ UNCHANGED <<par_defaults, par_required, par_returned, par_same_object>>
    /\ UNCHANGED <<coreVars, optVars, gridVars, calcVars, indVars, sigVars,
                   btVars, regVars, enumVars, metVars>>

\* set_parameters(params): the map is replaced, then validated
ParSetParameters(params) ==
    /\ par_state = "object"
    /\ par_parameters' = Merge(par_defaults, params)
    /\ par_result' = ValidateParameters(Merge(par_defaults, params),
                                        par_required)
    /\ par_same_object' = FALSE
    /\ UNCHANGED <<par_defaults, par_required, par_state, par_returned>>
    /\ UNCHANGED <<coreVars, optVars, gridVars, calcVars, indVars, sigVars,
                   btVars, regVars, enumVars, metVars>>

\* get_parameters()
ParGetParameters ==
    /\ par_state = "object"
    /\ par_returned' = GetParameters(par_parameters).dict
    /\ par_same_object' = GetParameters(par_parameters).same_object
    /\ par_result' = "returned"
    /\ UNCHANGED <<par_defaults, par_required, par_state, par_parameters>>
    /\ UNCHANGED <<coreVars, optVars, gridVars, calcVars, indVars, sigVars,
                   btVars, regVars, enumVars, metVars>>

\* the caller writes to the dict get_parameters returned
ParMutateReturned(key, value) ==
    /\ par_result = "returned"
    /\ par_returned' = DictSet(par_returned, key, value)
    /\ par_parameters' = IF par_same_object
                         THEN DictSet(par_parameters, key, value)
                         ELSE par_parameters
    /\ par_result' = "mutated"
    /\ UNCHANGED <<par_defaults, par_required, par_state, par_same_object>>
    /\ UNCHANGED <<coreVars, optVars, gridVars, calcVars, indVars, sigVars,
                   btVars, regVars, enumVars, metVars>>

ParNext ==
    \/ \E params \in ParamDicts : ParConstruct(params)
    \/ \E params \in ParamDicts : ParSetParameters(params)
    \/ ParGetParameters
    \/ \E key \in ParamNames, value \in ParamValues :
           ParMutateReturned(key, value)

(***************************************************************************)
(* 9. Backtester.optimize_strategy: the parameter combinations             *)
(*                                                                         *)
(* A Python value is the pair <<"num", n>> or <<"str", s>>; a number is    *)
(* held in units of 1/RangeScale.  A dict is the sequence of its items in  *)
(* insertion order, which is the order its iteration follows.              *)
(***************************************************************************)
RangeScale == 10000

\* the combinations of a run that the model follows
MaxCombinations == 250

Num(n) == <<"num", n>>
Str(s) == <<"str", s>>

\* BollingerBreakoutStrategy.get_parameter_ranges()
BollingerRanges ==
    << <<"bb_period",   << <<"min", Num(100000)>>, <<"max", Num(500000)>>,
                           <<"step", Num(50000)>> >> >>,
       <<"bb_std",      << <<"min", Num(15000)>>, <<"max", Num(30000)>>,
                           <<"step", Num(1000)>> >> >>,
       <<"amount",      << <<"min", Num(500000)>>, <<"max", Num(2000000)>>,
                           <<"step", Num(500000)>> >> >>,
       <<"stop_loss",   << <<"min", Num(100)>>, <<"max", Num(500)>>,
                           <<"step", Num(50)>> >> >>,
       <<"take_profit", << <<"min", Num(300)>>, <<"max", Num(600)>>,
                           <<"step", Num(50)>> >> >> >>

\* one range of GridStrategy.get_parameter_ranges()
GridRange(min, max, default, type, description) ==
    << <<"min", Num(min)>>, <<"max", Num(max)>>, <<"default", Num(default)>>,
       <<"type", Str(type)>>, <<"description", Str(description)>> >>

\* GridStrategy.get_parameter_ranges()
GridStrategyRanges ==
    << <<"grid_size", GridRange(50000, 500000, 200000, "int",
           "Number of grid levels above and below the initial price")>>,
       <<"grid_spacing", GridRange(10, 500, 50, "float",
           "Percentage distance between grid levels")>>,
       <<"size_multiplier", GridRange(1000, 50000, 10000, "float",
           "Multiplier for position sizes")>>,
       <<"min_profit", GridRange(1, 100, 10, "float",
           "Minimum profit target per trade")>>,
       <<"stop_loss", GridRange(50, 500, 200, "float",
           "Stop loss percentage")>>,
       <<"trend_period", GridRange(100000, 500000, 200000, "int",
           "Period for trend calculation")>>,
       <<"risk_per_trade", GridRange(10, 500, 100, "float",
           "Risk per trade as a fraction of account")>> >>

\* the strategies optimize_strategy is called for
ParameterRanges == {BollingerRanges, GridStrategyRanges}

\* iterating a dict yields its keys
Iterate(dict) == [i \in 1..Len(dict) |-> Str(dict[i][1])]

\* param_ranges.values(), each handed to product as an iterable
Iterables(param_ranges) ==
    [p \in 1..Len(param_ranges) |-> Iterate(param_ranges[p][2])]

\* number of tuples product(*iterables) yields from position p on
RECURSIVE ProductSize(_, _)
ProductSize(iterables, p) ==
    IF p > Len(iterables) THEN 1
    ELSE Len(iterables[p]) * ProductSize(iterables, p + 1)

\* the k-th tuple (from 0) of product(*iterables): the last iterable
\* advances on every tuple
ProductTuple(iterables, k) ==
    [p \in 1..Len(iterables) |->
        iterables[p][((k \div ProductSize(iterables, p + 1))
                         % Len(iterables[p])) + 1]]

\* dict(zip(param_ranges.keys(), values))
ZipDict(param_ranges, values) ==
    [p \in 1..Len(param_ranges) |-> <<param_ranges[p][1], values[p]>>]

EnumInit ==
    /\ enum_ranges \in ParameterRanges
    /\ enum_pc = "build"
    /\ enum_combinations = <<>>

EnumIdle ==
    /\ enum_ranges = <<>>
    /\ enum_pc = "off"
    /\ enum_combinations = <<>>

\* one turn of the list comprehension: the next tuple of the product
\* becomes a parameter map
EnumCombination ==
    /\ enum_pc = "build"
    /\ Len(enum_combinations) < MaxCombinations
    /\ Len(enum_combinations) < ProductSize(Iterables(enum_ranges), 1)
    /\ enum_combinations' =
           Append(enum_combinations,
                  ZipDict(enum_ranges,
                          ProductTuple(Iterables(enum_ranges),
                                       Len(enum_combinations))))
    /\ UNCHANGED <<enum_ranges, enum_pc>>
    /\ UNCHANGED <<coreVars, optVars, gridVars, calcVars, indVars, sigVars,
                   btVars, regVars, parVars, metVars>>

\* the product is exhausted: param_combinations is complete and one trial
\* is submitted for each of its elements
EnumExhausted ==
    /\ enum_pc = "build"
    /\ Len(enum_combinations) = ProductSize(Iterables(enum_ranges), 1)
    /\ enum_pc' = "trials"
    /\ UNCHANGED <<enum_ranges, enum_combinations>>
    /\ UNCHANGED <<coreVars, optVars, gridVars, calcVars, indVars, sigVars,
                   btVars, regVars, parVars, metVars>>

EnumNext == EnumCombination \/ EnumExhausted

(***************************************************************************)
(* 10. The performance metrics: calculate_advanced_metrics                 *)
(*     (analysis/metrics.py), PerformanceAnalyzer (analysis/performance.py)*)
(*     and the _calculate_performance_metrics of backtesting.Backtester    *)
(*     and of GridBacktester.                                              *)
(*                                                                         *)
(* An equity value or a return is the exact fraction num/den with den > 0; *)
(* equity values are positive.  A float result is a record of kind "num"   *)
(* (the fraction num/den), "inf", "-inf" or "nan"; the kinds "finite",     *)
(* "finite_pos" and "finite_neg" stand for a finite number whose size      *)
(* needs a root or a fractional power and is not represented.  The series  *)
(* pct_change() returns starts with a NaN that every reduction skips; the  *)
(* models of these series leave it out.                                    *)
(***************************************************************************)
MaxCurveLen == 3

\* equity values drawn for the points of a curve
MetEquities == {9, 10, 11}

\* initial_capital of the backtesting.Backtester whose metrics are computed
MetInitialCapitals == {10}

\* bars of the data per calendar day
BarsPerDay == {1, 2}

\* 252 / risk_free_rate: the daily risk-free rate is 1 / DailyRiskFreeInverse
DailyRiskFreeInverse == 12600

Rat(n, d) == [num |-> n, den |-> d]

RatEq(a, b) == a.num * b.den = b.num * a.den

RatLess(a, b) == a.num * b.den < b.num * a.den

RatAbs(a) == Rat(Abs(a.num), a.den)

RatSign(a) == IF a.num > 0 THEN 1 ELSE IF a.num < 0 THEN -1 ELSE 0

RatAdd(a, b) ==
    IF a.num = 0 THEN b
    ELSE IF b.num = 0 THEN a
    ELSE Rat(a.num * b.den + b.num * a.den, a.den * b.den)

\* a / b - 1 for b > 0
RelativeChange(a, b) == Rat(a.num * b.den - b.num * a.den, a.den * b.num)

\* |a / b| for b # 0
RatAbsQuotient(a, b) == Rat(Abs(a.num) * b.den, a.den * Abs(b.num))

Percent(a) == Rat(a.num * 100, a.den)

RatMinOf(s) ==
    s[CHOOSE i \in 1..Len(s) : \A j \in 1..Len(s) : ~RatLess(s[j], s[i])]

RatMaxOf(s) ==
    s[CHOOSE i \in 1..Len(s) : \A j \in 1..Len(s) : ~RatLess(s[i], s[j])]

RECURSIVE RatSum(_)
RatSum(s) ==
    IF s = << >> THEN Rat(0, 1) ELSE RatAdd(s[1], RatSum(Tail(s)))

Float(a) == [kind |-> "num", num |-> a.num, den |-> a.den]

Special(kind) == [kind |-> kind, num |-> 0, den |-> 1]

Zero == Float(Rat(0, 1))

\* equity.pct_change() without its leading NaN
PctChange(equity) ==
    [k \in 1..(Len(equity) - 1) |-> RelativeChange(equity[k + 1], equity[k])]

\* Series.std() of the values that are not NaN: NaN below two values, 0
\* when they are all equal, positive otherwise
StdKind(values) ==
    IF Len(values) < 2 THEN "nan"
    ELSE IF \A i \in 1..Len(values) : RatEq(values[i], values[1])
    THEN "zero" ELSE "pos"

\* equity.expanding().max()
ExpandingMax(equity) ==
    [k \in 1..Len(equity) |-> RatMaxOf(SubSeq(equity, 1, k))]

\* (equity - rolling_max) / rolling_max
Drawdowns(equity) ==
    [k \in 1..Len(equity) |->
        RelativeChange(equity[k], ExpandingMax(equity)[k])]

\* sqrt(252) * (mean / std) as numpy evaluates it for a mean of the given
\* sign
MeanOverStd(mean_sign, std) ==
    IF std = "nan" THEN Special("nan")
    ELSE IF std = "zero"
    THEN IF mean_sign > 0 THEN Special("inf")
         ELSE IF mean_sign < 0 THEN Special("-inf")
         ELSE Special("nan")
    ELSE IF mean_sign > 0 THEN Special("finite_pos")
    ELSE IF mean_sign < 0 THEN Special("finite_neg")
    ELSE Zero

NoMetrics ==
    [raised |-> FALSE, total_return |-> Special("absent"),
     max_drawdown |-> Special("absent"), sharpe_ratio |-> Special("absent"),
     calmar_ratio |-> Special("absent")]

Raised == [NoMetrics EXCEPT !.raised = TRUE]

\* total_return of calculate_advanced_metrics (line 12)
TotalReturn(equity) == RelativeChange(equity[Len(equity)], equity[1])

\* max_drawdown of calculate_advanced_metrics (line 19)
AdvancedMaxDrawdown(equity) ==
    IF PctChange(equity) = << >> THEN Special("nan")
    ELSE Float(RatAbs(RatMinOf(PctChange(equity))))

\* calculate_advanced_metrics(equity_curve, trades), trades being empty or
\* well formed.  annualized_return = (1 + total_return) ** (252 / n) - 1 has
\* the sign of total_return.
CalculateAdvancedMetrics(equity) ==
    IF equity = << >> THEN Raised
    ELSE LET total_return == TotalReturn(equity)
             volatility   == StdKind(PctChange(equity))
             max_drawdown == AdvancedMaxDrawdown(equity)
         IN  [raised       |-> FALSE,
              total_return |-> Float(total_return),
              max_drawdown |-> max_drawdown,
              sharpe_ratio |-> IF volatility = "pos"
                               THEN Special("finite") ELSE Special("inf"),
              calmar_ratio |->
                  IF max_drawdown.kind = "num" /\ max_drawdown.num > 0
                  THEN IF RatSign(total_return) > 0
                       THEN Special("finite_pos")
                       ELSE IF RatSign(total_return) < 0
                       THEN Special("finite_neg")
                       ELSE Zero
                  ELSE Special("inf")]

\* excess_returns.mean() has the sign of sum(returns) - n / 12600
ExcessMeanSign(returns) ==
    RatSign(RatAdd(RatSum(returns),
                   Rat(0 - Len(returns), DailyRiskFreeInverse)))

\* PerformanceAnalyzer._calculate_sharpe_ratio
AnalyzerSharpeRatio(returns) ==
    IF returns = << >> THEN Zero
    ELSE IF StdKind(returns) = "zero" THEN Zero
    ELSE IF StdKind(returns) = "nan" THEN Special("nan")
    ELSE IF ExcessMeanSign(returns) > 0 THEN Special("finite_pos")
    ELSE IF ExcessMeanSign(returns) < 0 THEN Special("finite_neg")
    ELSE Zero

\* PerformanceAnalyzer._calculate_max_drawdown
AnalyzerMaxDrawdown(equity) ==
    IF equity = << >> THEN Rat(0, 1)
    ELSE Percent(RatAbs(RatMinOf(Drawdowns(equity))))

\* PerformanceAnalyzer._calculate_total_return
AnalyzerTotalReturn(equity) ==
    IF Len(equity) < 2 THEN Rat(0, 1) ELSE Percent(TotalReturn(equity))

\* PerformanceAnalyzer._calculate_calmar_ratio
AnalyzerCalmarRatio(equity) ==
    IF AnalyzerMaxDrawdown(equity).num = 0 THEN Rat(0, 1)
    ELSE RatAbsQuotient(AnalyzerTotalReturn(equity),
                        AnalyzerMaxDrawdown(equity))

\* PerformanceAnalyzer.analyze(returns, trades, equity_curve), no trades
PerformanceAnalyze(returns, equity) ==
    [raised       |-> FALSE,
     total_return |-> Float(AnalyzerTotalReturn(equity)),
     max_drawdown |-> Float(AnalyzerMaxDrawdown(equity)),
     sharpe_ratio |-> AnalyzerSharpeRatio(returns),
     calmar_ratio |-> Float(AnalyzerCalmarRatio(equity))]

\* np.isnan(x) replaced by 0.0
NanToZero(x) == IF x.kind = "nan" THEN Zero ELSE x

\* backtesting.Backtester._calculate_performance_metrics(returns,
\* equity_curve), no trades.  An empty curve raises at iloc[-1], and the
\* handler of that exception raises on self.logger, which the class never
\* sets.
CalculatePerformanceMetrics(returns, equity, initial_capital) ==
    IF equity = << >> THEN Raised
    ELSE LET total_return ==
                 Percent(RelativeChange(equity[Len(equity)],
                                        Rat(initial_capital, 1)))
             max_drawdown == Percent(RatAbs(RatMinOf(Drawdowns(equity))))
         IN  [raised       |-> FALSE,
              total_return |-> Float(total_return),
              max_drawdown |-> Float(max_drawdown),
              sharpe_ratio |->
                  NanToZero(MeanOverStd(ExcessMeanSign(returns),
                                        StdKind(returns))),
              calmar_ratio |->
                  IF max_drawdown.num # 0
                  THEN Float(RatAbsQuotient(total_return, max_drawdown))
                  ELSE Zero]

\* equity_df.set_index('timestamp')['returns'].resample('D').sum() for bars
\* that fill the days in order, bars_per_day to a day: the sum of a day
\* skips the NaN of the first bar
DailyReturns(equity, bars_per_day) ==
    LET n    == Len(equity)
        days == (n + bars_per_day - 1) \div bars_per_day
        first(d) == IF d = 1 THEN 1 ELSE (d - 1) * bars_per_day
        last(d)  == IF d * bars_per_day > n THEN n - 1
                    ELSE d * bars_per_day - 1
    IN  [d \in 1..days |->
            RatSum(SubSeq(PctChange(equity), first(d), last(d)))]

\* GridBacktester._calculate_max_drawdown
CalculateMaxDrawdown(equity) ==
    IF equity = << >> THEN Rat(0, 1)
    ELSE RatAbs(RatMinOf(Drawdowns(equity)))

\* GridBacktester._calculate_performance_metrics
GridPerformanceMetrics(equity, bars_per_day, capital, initial_capital) ==
    IF equity = << >> THEN NoMetrics
    ELSE LET daily_returns == DailyReturns(equity, bars_per_day)
         IN  [raised       |-> FALSE,
              total_return |-> Float(RelativeChange(Rat(capital, 1),
                                                    Rat(initial_capital, 1))),
              max_drawdown |-> Float(CalculateMaxDrawdown(equity)),
              sharpe_ratio |-> MeanOverStd(RatSign(RatSum(daily_returns)),
                                           StdKind(daily_returns)),
              calmar_ratio |-> Special("absent")]

\* the equity curves the metrics are computed for
MetCurves ==
    UNION { [1..n -> { Rat(e, 1) : e \in MetEquities }] : n \in 0..MaxCurveLen }

MetInit ==
    /\ met_equity \in MetCurves
    /\ met_bars_per_day \in BarsPerDay
    /\ met_initial_capital \in MetInitialCapitals
    /\ met_impl = "none"
    /\ met_out = NoMetrics

MetIdle ==
    /\ met_equity = << >>
    /\ met_bars_per_day = 0
    /\ met_initial_capital = 0
    /\ met_impl = "off"
    /\ met_out = NoMetrics

\* run_backtest of core.Backtester hands its equity curve to
\* calculate_advanced_metrics
MetAdvanced ==
    /\ met_impl = "none"
    /\ met_impl' = "metrics"
    /\ met_out' = CalculateAdvancedMetrics(met_equity)
    /\ UNCHANGED <<met_equity, met_bars_per_day, met_initial_capital>>
    /\ UNCHANGED <<coreVars, optVars, gridVars, calcVars, indVars, sigVars,
                   btVars, regVars, parVars, enumVars>>

\* PerformanceAnalyzer.analyze on the curve and its per-period returns
MetAnalyze ==
    /\ met_impl = "none"
    /\ met_impl' = "performance"
    /\ met_out' = PerformanceAnalyze(PctChange(met_equity), met_equity)
    /\ UNCHANGED <<met_equity, met_bars_per_day, met_initial_capital>>
    /\ UNCHANGED <<coreVars, optVars, gridVars, calcVars, indVars, sigVars,
                   btVars, regVars, parVars, enumVars>>

\* backtesting.Backtester._calculate_performance_metrics on the curve and
\* its per-period returns
MetBacktester ==
    /\ met_impl = "none"
    /\ met_impl' = "backtesting"
    /\ met_out' = CalculatePerformanceMetrics(PctChange(met_equity),
                                              met_equity, met_initial_capital)
    /\ UNCHANGED <<met_equity, met_bars_per_day, met_initial_capital>>
    /\ UNCHANGED <<coreVars, optVars, gridVars, calcVars, indVars, sigVars,
                   btVars, regVars, parVars, enumVars>>

\* GridBacktester._calculate_performance_metrics: the curve starts at the
\* initial capital and ends at the current capital
MetGrid ==
    /\ met_impl = "none"
    /\ met_impl' = "grid"
    /\ met_out' =
           IF met_equity = << >> THEN NoMetrics
           ELSE GridPerformanceMetrics(met_equity, met_bars_per_day,
                                       met_equity[Len(met_equity)].num,
                                       met_equity[1].num)
    /\ UNCHANGED <<met_equity, met_bars_per_day, met_initial_capital>>
    /\ UNCHANGED <<coreVars, optVars, gridVars, calcVars, indVars, sigVars,
                   btVars, regVars, parVars, enumVars>>

MetNext == MetAdvanced \/ MetAnalyze \/ MetBacktester \/ MetGrid

(***************************************************************************)
(* Specifications                                                          *)
(***************************************************************************)
InitCore == CoreInit /\ OptIdle /\ GridIdle /\ CalcIdle /\ IndIdle
    /\ SigIdle /\ BtIdle /\ RegIdle /\ ParIdle /\ EnumIdle /\ MetIdle

SpecCore == InitCore /\ [][CoreNext]_vars

InitOpt == CoreIdle /\ OptInit /\ GridIdle /\ CalcIdle /\ IndIdle
    /\ SigIdle /\ BtIdle /\ RegIdle /\ ParIdle /\ EnumIdle /\ MetIdle

InitGrid ==
    CoreIdle /\ OptIdle /\ (GridInitBacktest \/ GridInitLive) /\ CalcIdle /\ IndIdle
    /\ SigIdle /\ BtIdle /\ RegIdle /\ ParIdle /\ EnumIdle /\ MetIdle

SpecGrid == InitGrid /\ [][GridNext \/ LiveNext]_vars

InitCalc == CoreIdle /\ OptIdle /\ GridIdle /\ CalcInit /\ IndIdle
    /\ SigIdle /\ BtIdle /\ RegIdle /\ ParIdle /\ EnumIdle /\ MetIdle

SpecCalc == InitCalc /\ [][CalcNext]_vars

InitInd == CoreIdle /\ OptIdle /\ GridIdle /\ CalcIdle /\ IndInit /\ SigIdle
    /\ BtIdle /\ RegIdle /\ ParIdle /\ EnumIdle /\ MetIdle

SpecInd == InitInd /\ [][IndNext]_vars

InitSig == CoreIdle /\ OptIdle /\ GridIdle /\ CalcIdle /\ IndIdle /\ SigInit
    /\ BtIdle /\ RegIdle /\ ParIdle /\ EnumIdle /\ MetIdle

SpecSig == InitSig /\ [][SigNext]_vars

InitBt == CoreIdle /\ OptIdle /\ GridIdle /\ CalcIdle /\ IndIdle /\ SigIdle
    /\ BtInit /\ RegIdle /\ ParIdle /\ EnumIdle /\ MetIdle

SpecBt == InitBt /\ [][BtNext]_vars

InitTrades == CoreIdle /\ OptIdle /\ GridIdle /\ CalcIdle /\ IndIdle /\ SigIdle
    /\ TradesInit /\ RegIdle /\ ParIdle /\ EnumIdle /\ MetIdle

SpecTrades == InitTrades /\ [][TradesNext]_vars

InitReg == CoreIdle /\ OptIdle /\ GridIdle /\ CalcIdle /\ IndIdle /\ SigIdle
    /\ BtIdle /\ RegInit /\ ParIdle /\ EnumIdle /\ MetIdle

SpecReg == InitReg /\ [][RegNext]_vars

SpecOpt == InitOpt /\ [][OptNext]_vars

InitPar == CoreIdle /\ OptIdle /\ GridIdle /\ CalcIdle /\ IndIdle
    /\ SigIdle /\ BtIdle /\ RegIdle /\ ParInit /\ EnumIdle /\ MetIdle

SpecPar == InitPar /\ [][ParNext]_vars

InitEnum == CoreIdle /\ OptIdle /\ GridIdle /\ CalcIdle /\ IndIdle
    /\ SigIdle /\ BtIdle /\ RegIdle /\ ParIdle /\ EnumInit /\ MetIdle

SpecEnum == InitEnum /\ [][EnumNext]_vars

InitMet == CoreIdle /\ OptIdle /\ GridIdle /\ CalcIdle /\ IndIdle
    /\ SigIdle /\ BtIdle /\ RegIdle /\ ParIdle /\ EnumIdle /\ MetInit

SpecMet == InitMet /\ [][MetNext]_vars

(***************************************************************************)
(* Claims                                                                  *)
(***************************************************************************)

\* C1: in the core Backtester capital is never debited below what is
\* available: a buy whose notional exceeds the current capital is skipped,
\* so capital >= 0 holds after every bar of run_backtest.
C1_CapitalNeverNegative == core_capital >= 0

\* the last point of the equity curve
LastEquityPoint == gb_equity_curve[Len(gb_equity_curve)]

\* the trades of the ledger recorded for a level
FillTradesOf(trades, id) == { k \in DOMAIN trades : trades[k].level = id }

\* cash moved by the first k trades of the ledger: bought value and
\* commissions out, sold value in
RECURSIVE CashFlow(_, _)
CashFlow(trades, k) ==
    IF k = 0 THEN 0
    ELSE CashFlow(trades, k - 1) - trades[k].commission
         + (IF trades[k].type = "BUY" THEN -trades[k].value ELSE trades[k].value)

RECURSIVE OpenPositionValue(_, _, _)
OpenPositionValue(heap, k, price) ==
    IF k = 0 THEN 0
    ELSE OpenPositionValue(heap, k - 1, price)
         + (IF heap[k].is_filled /\ heap[k].is_active
            THEN IF heap[k].type = "BUY"
                 THEN PositionValue(heap[k].size, price)
                 ELSE -PositionValue(heap[k].size, price)
            ELSE 0)

PairOf(heap, id) == {id, heap[id].paired_level}

C6_PairingSymmetry ==
    calc_result # << >> =>
        LET lv == calc_result[1]
        IN  /\ \A a \in DOMAIN lv :
                   lv[a].paired_level # 0 =>
                       /\ lv[a].paired_level \in DOMAIN lv
                       /\ lv[lv[a].paired_level].paired_level = a
                       /\ lv[lv[a].paired_level].type # lv[a].type
            /\ \A a, b \in DOMAIN lv :
                   (a # b /\ lv[a].paired_level # 0) =>
                       lv[a].paired_level # lv[b].paired_level

\* C6 witness: a returned list holding two pairs and an unpaired level.
C6_Witness ==
    /\ calc_result # << >>
    /\ Cardinality({ a \in DOMAIN calc_result[1] :
                         calc_result[1][a].paired_level # 0 }) >= 4
    /\ \E a \in DOMAIN calc_result[1] : calc_result[1][a].paired_level = 0

\* two means <<sum, count>> are the same number
SameMean(x, y) == x[1] * y[2] = y[1] * x[2]

\* C9: for every bar beyond the warm-up window of the sequence, the chunked
\* preprocessor yields the same rolling-window value as calculate_indicators
\* applied to the whole sequence in one chunk.
C9_ChunkEquivalence ==
    ind_pc = "done" =>
        LET whole == CalculateIndicators(ind_data, 1, Len(ind_data))
            out   == ind_out[1]
        IN  \A k \in DOMAIN out :
                out[k].index > OverlapPeriod =>
                    \A w \in DOMAIN SmaWindows :
                        SameMean(out[k].sma[w], whole[out[k].index].sma[w])

\* C10: no look-ahead: for two bar sequences that agree on their first bars,
\* generate_signals produces the same signal on each of those bars.
C10_NoLookAhead ==
    (sig_out_a # << >> /\ sig_out_b # << >>) =>
        \A k \in 1..CommonPrefix(sig_a, sig_b, 0) :
            sig_out_a[1][k].signal = sig_out_b[1][k].signal

\* a trial whose construction or run raises
TrialFails(t) == ~t.ctor_ok \/ ~t.run_ok

\* C7: the optimizer returns a trial with the highest Sharpe ratio and, among
\* the trials sharing that ratio, the one that comes first in the enumeration
\* order of the Cartesian product, whatever order the workers finish in.
C7_BestIsFirstInEnumeration ==
    opt_pc = "done" =>
        LET best == opt_best[1]
        IN  \A i \in DOMAIN opt_trials :
                ~TrialFails(opt_trials[i]) =>
                    /\ opt_trials[i].sharpe <= best.sharpe_ratio
                    /\ opt_trials[i].sharpe = best.sharpe_ratio => best.params <= i

\* C8: a trial that fails, in construction or in its run, does not abort its
\* siblings: the optimizer fails only when every trial failed, and otherwise
\* returns the best of the trials that did not fail.
C8_TrialIsolation ==
    /\ opt_pc = "failed" =>
           \A i \in DOMAIN opt_trials : TrialFails(opt_trials[i])
    /\ opt_pc = "done" =>
           /\ ~TrialFails(opt_trials[opt_best[1].params])
           /\ \A i \in DOMAIN opt_trials :
                  ~TrialFails(opt_trials[i]) =>
                      opt_trials[i].sharpe <= opt_best[1].sharpe_ratio
    /\ (opt_pc = "collect" /\ opt_pending = {}) =>
           \A i \in DOMAIN opt_trials :
               ~TrialFails(opt_trials[i]) =>
                   \E k \in DOMAIN opt_results : opt_results[k].params = i

\* C11: independent runs are independent: running Backtester.run twice
\* with the same strategy instance on the same bars produces the same
\* signal sequence in both runs (the second run again starts with the
\* initial long entry on its first bar) and the same results.
C11_RunsAreIndependent ==
    (bt_pc = "idle" /\ bt_run = BtRuns) =>
        /\ bt_signals[2] = bt_signals[1]
        /\ bt_results[2] = bt_results[1]

\* C12: same-direction signals are no-ops in the core Backtester: a row with
\* a buy signal while position > 0, or a sell signal while position < 0,
\* yields no trade and leaves capital, position and the ledger unchanged.
C12_SameDirectionNoOp ==
    [][\A close \in CorePrices, signal \in Signals :
           (/\ CoreBar(close, signal)
            /\ signal * PositionSign(core_position) > 0)
           => /\ ExecuteTrade(core_capital, core_position, core_params,
                              core_i, close, signal).trade = << >>
              /\ UNCHANGED <<core_capital, core_position, core_trades>>]_vars

\* C12 witness: the last row iterated carried a signal in the direction of
\* the position held before it, opened by an earlier row.
C12_Witness ==
    /\ Len(core_rows) >= 2
    /\ Len(core_trades) = 1
    /\ core_trades[1].timestamp < core_i - 1
    /\ core_rows[core_i].signal * PositionSign(core_position) > 0

\* C13: StrategyRegistry.register fails, leaving the registry unchanged,
\* when the name is already registered with a different implementation;
\* registering the same implementation again succeeds and leaves the
\* registry unchanged.
C13_RegisterRejectsOtherImplementation ==
    \A class \in StrategyClasses :
        LET k == KeyIndex(reg_strategies, class.name)
            r == Register(reg_strategies, class)
        IN  (k # 0 /\ class.is_strategy) =>
                IF reg_strategies[k].class = class
                THEN r.result = "returned" /\ r.strategies = reg_strategies
                ELSE r.result = "ValueError" /\ r.strategies = reg_strategies

\* the map is the defaults overridden by the supplied parameters
IsMergeOf(parameters, defaults, params) ==
    \A name \in ParamNames :
        /\ HasKey(parameters, name)
               <=> (HasKey(defaults, name) \/ HasKey(params, name))
        /\ HasKey(parameters, name) =>
               Get(parameters, name) = IF HasKey(params, name)
                                       THEN Get(params, name)
                                       ELSE Get(defaults, name)

\* some required name is in neither the defaults nor the supplied map
MissingRequired(defaults, required, params) ==
    \E name \in required : ~HasKey(defaults, name) /\ ~HasKey(params, name)

\* C14: constructing a strategy, and replacing its parameters with
\* set_parameters, fails with a missing-parameter error whenever a required
\* name is absent from the merged map; when it succeeds the stored map is
\* exactly the defaults merged with the supplied overrides; and writing to
\* the map get_parameters returned does not change the strategy.
C14_ParameterValidation ==
    [][/\ \A params \in ParamDicts :
              (ParConstruct(params) \/ ParSetParameters(params)) =>
                  IF MissingRequired(par_defaults, par_required, params)
                  THEN par_result' = "ValueError"
                  ELSE /\ par_result' = "ok"
                       /\ IsMergeOf(par_parameters', par_defaults, params)
       /\ ParGetParameters => par_returned' = par_parameters
       /\ \A key \in ParamNames, value \in ParamValues :
              ParMutateReturned(key, value) =>
                  par_parameters' = par_parameters]_vars

\* C14 witness: a strategy whose construction succeeded, whose
\* set_parameters then failed, and whose returned map was written to by the
\* caller and now differs from the stored one.
C14_Witness ==
    /\ par_state = "object"
    /\ par_result = "mutated"
    /\ par_returned # par_parameters
    /\ \E name \in par_required : ~HasKey(par_parameters, name)

\* the item of a range dict under a key, as a sequence of at most one value
RangeItem(range, key) ==
    SelectSeq(range, LAMBDA item : item[1] = key)

\* the range gives min, max and step as numbers
GivesMinMaxStep(range) ==
    \A key \in {"min", "max", "step"} :
        /\ Len(RangeItem(range, key)) = 1
        /\ RangeItem(range, key)[1][2][1] = "num"

RangeNumber(range, key) == RangeItem(range, key)[1][2][2]

\* number of values min + k*step within [min, max]
DiscretizedCount(range) ==
    ((RangeNumber(range, "max") - RangeNumber(range, "min"))
        \div RangeNumber(range, "step")) + 1

\* value is a number of the form min + k*step within [min, max]
IsDiscretized(range, value) ==
    /\ value[1] = "num"
    /\ \E k \in 0..(DiscretizedCount(range) - 1) :
           value[2] = RangeNumber(range, "min")
                          + k * RangeNumber(range, "step")

RECURSIVE CartesianSize(_, _)
CartesianSize(param_ranges, p) ==
    IF p > Len(param_ranges) THEN 1
    ELSE DiscretizedCount(param_ranges[p][2])
             * CartesianSize(param_ranges, p + 1)

\* C15: when every parameter's range gives min, max and step, each trial's
\* parameter map assigns each parameter a number min + k*step within
\* [min, max], no combination is listed twice, and the complete list has
\* one trial per element of the Cartesian product of those values.
C15_TrialsAreCartesianProduct ==
    (enum_pc # "off"
        /\ \A p \in 1..Len(enum_ranges) : GivesMinMaxStep(enum_ranges[p][2]))
    => /\ \A i \in 1..Len(enum_combinations) :
           \A p \in 1..Len(enum_ranges) :
               /\ enum_combinations[i][p][1] = enum_ranges[p][1]
               /\ IsDiscretized(enum_ranges[p][2], enum_combinations[i][p][2])
       /\ \A i, j \in 1..Len(enum_combinations) :
              enum_combinations[i] = enum_combinations[j] => i = j
       /\ enum_pc = "trials"
              => Len(enum_combinations) = CartesianSize(enum_ranges, 1)

\* the Sharpe ratio is the number 0
IsZero(x) == x.kind = "num" /\ x.num = 0

\* C16: a metrics implementation that reports a Sharpe ratio for an equity
\* curve reports 0 when the curve has fewer than two points (its return
\* series is empty) and +infinity when the volatility of the return series
\* is exactly 0; in both cases nothing is raised and the result is not NaN.
C16_SharpeDegenerateCases ==
    met_impl \in {"metrics", "performance", "grid"}
    => /\ Len(met_equity) < 2
           => ~met_out.raised /\ IsZero(met_out.sharpe_ratio)
       /\ StdKind(PctChange(met_equity)) = "zero"
           => ~met_out.raised /\ met_out.sharpe_ratio.kind = "inf"

\* C17: in every implementation that reports a Calmar ratio, the ratio is 0
\* when the reported max drawdown is exactly 0 and |total return / max
\* drawdown| of the reported values otherwise (a finite ratio whose size is
\* not represented has to be positive at least).
C17_CalmarConvention ==
    (met_impl \in {"metrics", "performance", "backtesting"} /\ ~met_out.raised)
    => /\ IsZero(met_out.max_drawdown) => IsZero(met_out.calmar_ratio)
       /\ (met_out.max_drawdown.kind = "num" /\ met_out.max_drawdown.num # 0)
           => /\ met_out.calmar_ratio.kind \in {"num", "finite_pos"}
              /\ met_out.calmar_ratio.kind = "num"
                  => RatEq(met_out.calmar_ratio,
                           RatAbsQuotient(met_out.total_return,
                                          met_out.max_drawdown))

\* C18: the max drawdown calculate_advanced_metrics reports is the largest
\* peak-to-trough decline of the curve, |min over bars of (equity - running
\* maximum) / running maximum|.
C18_MaxDrawdownIsPeakToTrough ==
    (met_impl = "metrics" /\ ~met_out.raised)
    => /\ met_out.max_drawdown.kind = "num"
       /\ RatEq(met_out.max_drawdown, CalculateMaxDrawdown(met_equity))

\* the rows iterated so far are a buy-and-hold scenario: strictly rising
\* closes, a buy signal on bar 0 and no signal on every later bar
BuyAndHold ==
    /\ Len(core_rows) >= 1
    /\ core_rows[1].signal > 0
    /\ \A k \in 2..Len(core_rows) :
           /\ core_rows[k].signal = 0
           /\ core_rows[k].close > core_rows[k - 1].close

\* the 'equity' column of the frame run_backtest hands to
\* calculate_advanced_metrics
CoreEquityColumn ==
    [k \in 1..Len(core_equity_curve) |-> core_equity_curve[k].equity]

\* C19: after a buy-and-hold run of the core Backtester the ledger holds
\* exactly one trade and the total return of the metrics equals
\* (final close / bar-0 close) - 1.
C19_BuyAndHoldReturn ==
    BuyAndHold
    => /\ Len(core_trades) = 1
       /\ RatEq(TotalReturn(CoreEquityColumn),
                RelativeChange(Rat(core_rows[Len(core_rows)].close, 1),
                               Rat(core_rows[1].close, 1)))

\* the bars processed so far are a flat-price run through the grid with 5
\* levels and 1% spacing: every close is 100 and the grid has been built
FlatRun ==
    /\ driver = "backtest"
    /\ strategy_params.grid_levels = 5
    /\ strategy_params.grid_spacing = 10
    /\ gb_i > WarmupBars
    /\ \A k \in 1..Len(gb_equity_curve) :
           gb_equity_curve[k].price = 100 * PriceScale

\* the 'equity' column of equity_df
GridEquityColumn ==
    [k \in 1..Len(gb_equity_curve) |-> Rat(gb_equity_curve[k].equity, 1)]

C21_ClosedOnlyFromFilledPair ==
    [][\A id \in DOMAIN levels' :
          (levels'[id].is_active = FALSE
              /\ (id \in DOMAIN levels => levels[id].is_active))
          => /\ levels'[id].paired_level # 0
             /\ levels'[id].is_filled
             /\ levels'[levels'[id].paired_level].is_filled]_vars

\* the levels of grid_levels that are PENDING: active and not filled
PendingLevels ==
    { grid_levels[k] : k \in DOMAIN grid_levels } \cap
    { id \in DOMAIN levels : levels[id].is_active /\ ~levels[id].is_filled }

\* the close of the bar a step of run_backtest has just recorded
BarClose == gb_equity_curve'[Len(gb_equity_curve')].price

\* cost of the fills of a set of levels at a price, commissions included
RECURSIVE FillCost(_, _)
FillCost(ids, price) ==
    IF ids = {} THEN 0
    ELSE LET id == CHOOSE x \in ids : TRUE
         IN  PositionValue(levels[id].size, price)
                 + Commission(levels[id].size, price, commission_rate)
                 + FillCost(ids \ {id}, price)

\* the capital before the bar pays for every PENDING level the close
\* crosses, whatever the order of the fills
CapitalSuffices ==
    FillCost({ id \in PendingLevels : Crosses(levels[id], BarClose) },
             BarClose) <= current_capital

LevelsOfType(lv, type) ==
    SelectSeq([k \in DOMAIN lv |-> k], LAMBDA k : lv[k].type = type)

\* C23: in the list calculate_grid_levels returns, every level below the
\* current price is BUY and every level above it is SELL, and the j-th BUY
\* level created is paired with the j-th SELL level created, for every j up
\* to the number of pairs the two sides allow.
C23_PairingInConstructionOrder ==
    calc_result # << >> =>
        LET lv    == calc_result[1]
            buys  == LevelsOfType(lv, "BUY")
            sells == LevelsOfType(lv, "SELL")
        IN  /\ \A k \in DOMAIN lv :
                   /\ lv[k].price < calc_price => lv[k].type = "BUY"
                   /\ lv[k].price > calc_price => lv[k].type = "SELL"
            /\ \A j \in 1..Len(buys) :
                   j <= Len(sells) =>
                       /\ lv[buys[j]].paired_level = sells[j]
                       /\ lv[sells[j]].paired_level = buys[j]

\* the levels a list of identities holds
LevelSet(gl) == { gl[k] : k \in DOMAIN gl }

\* a step of run_backtest past the warm-up on which adjust_grid is called
AdjustingBar ==
    /\ driver = "backtest"
    /\ gb_i >= WarmupBars
    /\ gb_i' = gb_i + 1
    /\ ShouldAdjustGrid(levels, grid_levels, BarClose)

C25_ReassemblyKeepsEveryBarOnce ==
    ind_pc = "done" =>
        LET out == ind_out[1]
        IN  /\ Len(out) = Len(ind_data)
            /\ \A k \in DOMAIN out :
                   /\ out[k].index = k
                   /\ out[k].close = ind_data[k]

\* C25 witness: three chunks with overlapping rows were collected with the
\* last chunk first, and the frame has been returned.
C25_Witness ==
    /\ ind_pc = "done"
    /\ Len(ind_processed) = 3
    /\ ind_processed[1].start > ind_processed[2].start
    /\ ChunkEnd(Len(ind_data), ind_workers, 0)
           > ChunkStart(Len(ind_data), ind_workers, 1)

\* C26: every trade executed by the core Backtester leaves capital +
\* position * price unchanged at the price of the trade, also when the
\* trade is made against a position of the opposite direction.
C26_TradeIsEquityNeutral ==
    [][\A close \in CorePrices, signal \in Signals :
           (/\ CoreBar(close, signal)
            /\ Len(core_trades') > Len(core_trades))
           => RatEq(CoreEquity(core_capital, core_position, close),
                    CoreEquity(core_capital', core_position', close))]_vars

BarWithoutSignal ==
    /\ bt_pc = "loop"
    /\ bt_i < Len(bt_bars)
    /\ bt_i' = bt_i + 1
    /\ Analyze(hs_position, hs_hedge_position, bt_bars[bt_i + 1]).signals
           = << >>

\* C28: in Backtester.run a bar on which no signal is executed leaves
\* current_capital unchanged: current_capital changes only when a position
\* is opened or closed.
C28_CapitalChangesOnlyOnTrades ==
    [][BarWithoutSignal => bt_capital' = bt_capital]_vars

\* the number of opens among the signals executed so far
OpensExecuted ==
    Cardinality({ k \in DOMAIN bt_signals[1] :
                      bt_signals[1][k][1].action = "buy" })

\* C29: after any sequence of buy and sell signals executed on a Backtester,
\* the number of open positions is the number of opens minus the number of
\* closes that matched a position (each of which recorded a trade): every
\* open adds an entry of its own and overwrites none.
C29_OpensAddDistinctPositions ==
    bt_pc = "signals" =>
        Len(bt_positions) = OpensExecuted - Len(bt_trades)

\* C30: in live trading active_orders holds exactly the levels that have an
\* order_id and are neither filled nor cancelled, each under its order_id
\* and at most once: a level cancelled by cancel_grid_orders is no longer
\* in active_orders.
C30_ActiveOrdersMatchLevels ==
    driver = "live" =>
        /\ \A e \in active_orders :
               /\ levels[e[2]].order_id = e[1]
               /\ levels[e[2]].is_active
               /\ ~levels[e[2]].is_filled
        /\ \A id \in LevelSet(live_grid) :
               (/\ levels[id].order_id # 0
                /\ levels[id].is_active
                /\ ~levels[id].is_filled)
               => <<levels[id].order_id, id>> \in active_orders
        /\ \A e, f \in active_orders : e[2] = f[2] => e = f
====
